---- MODULE Spec2Model ----
(***************************************************************************)
(* Model of the agent orchestration loop of achryrn/AI-Agent:              *)
(*   core/agent_kernel.py      AgentKernel.run (the per-turn pipeline)     *)
(*   reasoning/llm_reasoner.py LLMReasoner.think and its retry ladder      *)
(*   core/tool_prompt.py       ToolPromptHandler (field completion)        *)
(*   core/tool_manager.py      ToolManager (lookup, validate_input)        *)
(*   memory/buffer_memory.py   EnhancedBufferMemory                        *)
(*   memory/vector_memory.py   VectorMemory                                *)
(*   core/event_bus.py         EventBus                                    *)
(*                                                                         *)
(* Python str values are TLA+ strings; Python values whose type can vary   *)
(* at run time are tagged records [t |-> <type name>, v |-> <value>].      *)
(***************************************************************************)
EXTENDS Integers, Sequences, FiniteSets, TLC

(***************************************************************************)
(* Bounds of the model.                                                    *)
(***************************************************************************)
\* Number of inputs the interface delivers in one explored session.
MaxTurns == 1
\* EnhancedBufferMemory(limit=...): the cap of the conversation history
\* (runner.py constructs it with limit=1000).
MemoryLimit == 2
\* calls on one memory store that are followed
MaxCalls == 2
\* distinct URLs the search engines and the scraped pages lead to
MaxUrls == 2
\* fragments in the body of one streaming response
MaxFragments == 2
\* subscriptions made on one event bus
MaxSubscriptions == 3

(***************************************************************************)
(* Program constants.                                                      *)
(***************************************************************************)
\* LLMReasoner.__init__(..., retries=3)
Retries == 3
\* AgentKernel._prepare_reasoning_prompt: context_limit=8
ContextLimit == 8

(***************************************************************************)
(* Python values.                                                          *)
(***************************************************************************)
PyStr(s) == [t |-> "str", v |-> s]
PyInt(n) == [t |-> "int", v |-> n]
PyBool(b) == [t |-> "bool", v |-> b]
PyDict(d) == [t |-> "dict", v |-> d]
PyNone == [t |-> "NoneType"]
PyList(items) == [t |-> "list", v |-> items]
PyTuple(items) == [t |-> "tuple", v |-> items]
PyFloat(text) == [t |-> "float", v |-> text]
EmptyDict == [k \in {} |-> PyNone]

\* an exception in flight (none: empty type)
NoExc == [type |-> "", msg |-> ""]
Exc(type, msg) == [type |-> type, msg |-> msg]

\* x == s for a str s
IsStr(x, s) == x.t = "str" /\ x.v = s

\* Python truthiness (bool(x)).
Truthy(x) ==
  CASE x.t = "str" -> Len(x.v) > 0
    [] x.t = "int" -> x.v # 0
    [] x.t = "bool" -> x.v
    [] x.t = "dict" -> DOMAIN x.v # {}
    [] OTHER -> FALSE

\* dict.get(key, default)
DictGet(d, key, default) == IF key \in DOMAIN d THEN d[key] ELSE default

\* d[key] = value on a copy of d
DictSet(d, key, value) ==
  [k \in (DOMAIN d) \cup {key} |-> IF k = key THEN value ELSE d[k]]

(***************************************************************************)
(* String helpers (str.strip, substring test, str.lower).                  *)
(***************************************************************************)
Whitespace == {" ", "\n", "\t"}

RECURSIVE LStrip(_)
LStrip(s) ==
  IF Len(s) > 0 /\ SubSeq(s, 1, 1) \in Whitespace
  THEN LStrip(SubSeq(s, 2, Len(s))) ELSE s

RECURSIVE RStrip(_)
RStrip(s) ==
  IF Len(s) > 0 /\ SubSeq(s, Len(s), Len(s)) \in Whitespace
  THEN RStrip(SubSeq(s, 1, Len(s) - 1)) ELSE s

\* str.strip()
Strip(s) == RStrip(LStrip(s))

\* p in s
Contains(s, p) ==
  \E i \in 1..(Len(s) - Len(p) + 1) : SubSeq(s, i, i + Len(p) - 1) = p

UpperLetters == "ABCDEFGHIJKLMNOPQRSTUVWXYZ"
LowerLetters == "abcdefghijklmnopqrstuvwxyz"

LowerChar(c) ==
  IF \E i \in 1..26 : SubSeq(UpperLetters, i, i) = c
  THEN LET i == CHOOSE i \in 1..26 : SubSeq(UpperLetters, i, i) = c
       IN SubSeq(LowerLetters, i, i)
  ELSE c

RECURSIVE Lower(_)
\* str.lower()
Lower(s) ==
  IF Len(s) = 0 THEN ""
  ELSE LowerChar(SubSeq(s, 1, 1)) \o Lower(SubSeq(s, 2, Len(s)))

Digit(d) == SubSeq("0123456789", d + 1, d + 1)

RECURSIVE NatToStr(_)
\* str(n) for n >= 0
NatToStr(n) == IF n < 10 THEN Digit(n) ELSE NatToStr(n \div 10) \o Digit(n % 10)

\* The order in which the keys of the modelled dicts are inserted.
KeyOrder ==
  << "user_request", "tool_input", "output_length", "fallback_used",
     "response", "expression", "query", "max_depth", "type" >>

RECURSIVE Repr(_)
RECURSIVE ReprItems(_, _, _)
RECURSIVE ReprList(_, _)
\* repr(x) / str(x) of a non-str value (escaping of quotes is not modelled)
Repr(x) ==
  CASE x.t = "str" -> "'" \o x.v \o "'"
    [] x.t = "int" -> NatToStr(x.v)
    [] x.t = "bool" -> IF x.v THEN "True" ELSE "False"
    [] x.t = "NoneType" -> "None"
    [] x.t = "float" -> x.v
    [] x.t = "list" -> "[" \o ReprList(x.v, 1) \o "]"
    [] OTHER -> "{" \o ReprItems(x.v, 1, TRUE) \o "}"

ReprList(items, i) ==
  IF i > Len(items) THEN ""
  ELSE (IF i = 1 THEN "" ELSE ", ") \o Repr(items[i]) \o ReprList(items, i + 1)

ReprItems(d, i, first) ==
  IF i > Len(KeyOrder) THEN ""
  ELSE IF KeyOrder[i] \in DOMAIN d
       THEN (IF first THEN "" ELSE ", ") \o "'" \o KeyOrder[i] \o "': "
            \o Repr(d[KeyOrder[i]]) \o ReprItems(d, i + 1, FALSE)
       ELSE ReprItems(d, i + 1, first)

\* str(x): a str is itself, everything else prints as its repr
PyToStr(x) == IF x.t = "str" THEN x.v ELSE Repr(x)

Max(a, b) == IF a > b THEN a ELSE b

\* seq[-n:]
LastN(seq, n) == SubSeq(seq, Max(1, Len(seq) - n + 1), Len(seq))

RECURSIVE JoinWith(_, _)
\* sep.join(parts)
JoinWith(parts, sep) ==
  IF Len(parts) = 0 THEN ""
  ELSE IF Len(parts) = 1 THEN parts[1]
  ELSE parts[1] \o sep \o JoinWith(Tail(parts), sep)

(***************************************************************************)
(* Tools (tools/base_tool.py, tools/chat.py, tools/calculator.py,          *)
(* tools/search.py, tools/rc_car.py).                                      *)
(***************************************************************************)
AllTools == {"chat", "advanced_calculator", "intelligent_search", "esp32_rc_car"}

\* Whether json.loads(example_usage.replace("Example:", "").strip()) succeeds.
ExampleParses(tool) == tool # "esp32_rc_car"

\* The keys of the parsed example, in order.
ExampleKeys(tool) ==
  CASE tool = "chat" -> << "response" >>
    [] tool = "advanced_calculator" -> << "expression" >>
    [] tool = "intelligent_search" -> << "query", "max_depth" >>
    [] OTHER -> << >>

\* The parsed example.
Example(tool) ==
  CASE tool = "chat" -> [response |-> PyStr("Hello! How can I help you?")]
    [] tool = "advanced_calculator" ->
         [expression |-> PyStr("sqrt(16) + 2**3 - 5/2")]
    [] tool = "intelligent_search" ->
         [query |-> PyStr("best investment opportunities 2025"),
          max_depth |-> PyInt(2)]
    [] OTHER -> EmptyDict

\* Tool.example_schema.infer_type
infer_type(value) ==
  CASE value.t = "bool" -> "boolean"
    [] value.t = "int" -> "integer"
    [] value.t = "float" -> "number"
    [] value.t = "dict" -> "object"
    [] value.t = "list" -> "array"
    [] OTHER -> "string"

\* Tool.example_schema, lines 38-46, from the outcome of json.loads:
\* whether it parsed, the keys in order, and the mapping
SchemaOf(parsed) ==
  IF parsed.ok
  THEN [type |-> "object",
        required |-> parsed.keys,
        properties |-> [k \in DOMAIN parsed.value |->
                          [type |-> infer_type(parsed.value[k])]]]
  ELSE [type |-> "object"]

\* Tool.example_schema
example_schema(tool) ==
  SchemaOf([ok |-> ExampleParses(tool), keys |-> ExampleKeys(tool), value |-> Example(tool)])

\* jsonschema: does the instance have the JSON type?
JsonTypeOk(value, type) ==
  CASE type = "string" -> value.t = "str"
    [] type = "integer" -> value.t = "int"
    [] type = "number" -> value.t \in {"int", "float"}
    [] type = "boolean" -> value.t = "bool"
    [] type = "object" -> value.t = "dict"
    [] type = "array" -> value.t = "list"
    [] OTHER -> TRUE

get_tool_unregistered(reg, tool_name) ==
  IF tool_name.t = "str" /\ tool_name.v \in AllTools THEN tool_name.v ELSE ""

\* ToolManager.get_tool_by_name: the registered tool or None ("" here)
get_tool_by_name(reg, tool_name) ==
  IF tool_name.t = "str" /\ tool_name.v \in reg THEN tool_name.v ELSE ""

RECURSIVE FirstMissing(_, _, _)
FirstMissing(required, input, i) ==
  IF i > Len(required) THEN ""
  ELSE IF required[i] \notin DOMAIN input THEN required[i]
  ELSE FirstMissing(required, input, i + 1)

RECURSIVE FirstBadType(_, _, _)
FirstBadType(properties, input, i) ==
  IF i > Len(KeyOrder) THEN ""
  ELSE IF /\ KeyOrder[i] \in DOMAIN properties
          /\ KeyOrder[i] \in DOMAIN input
          /\ ~JsonTypeOk(input[KeyOrder[i]], properties[KeyOrder[i]].type)
       THEN KeyOrder[i]
       ELSE FirstBadType(properties, input, i + 1)

\* jsonschema.validate(instance, schema) for an object schema with
\* "required" and "properties": the message of the most relevant error
\* (a missing required key first, then a wrongly typed property), "" if valid.
JsonSchemaError(input, required, properties) ==
  LET m == FirstMissing(required, input, 1)
      b == FirstBadType(properties, input, 1)
  IN IF m # "" THEN "'" \o m \o "' is a required property"
     ELSE IF b # ""
          THEN Repr(input[b]) \o " is not of type '" \o properties[b].type \o "'"
          ELSE ""

\* validate_input, lines 67-92: convert the schema if needed, then validate
ValidateSchema(schema, input_data) ==
  LET \* a schema without "properties" is converted: every key of it
      \* becomes a string property and nothing is required
      props == IF "properties" \in DOMAIN schema THEN schema.properties
               ELSE [k \in DOMAIN schema |-> [type |-> "string"]]
      req == IF "properties" \in DOMAIN schema THEN schema.required
             ELSE << >>
      err == JsonSchemaError(input_data, req, props)
  IN [ok |-> err = "", msg |-> err]

\* ToolManager.validate_input -> (ok, message)
validate_input(reg, tool_name, input_data) ==
  LET tool == get_tool_by_name(reg, tool_name) IN
  IF tool = ""
  THEN [ok |-> FALSE, msg |-> "Tool '" \o PyToStr(tool_name) \o "' not found."]
  ELSE ValidateSchema(example_schema(tool), input_data)

(***************************************************************************)
(* Tool objects and the registry (core/tool_manager.py,                    *)
(* core/utils/tool_loader.py).  A tool object is the record of its         *)
(* attributes name, description and example_usage; an attribute the object *)
(* does not have is Absent.                                                *)
(***************************************************************************)
Absent == [t |-> "absent"]

ToolObject(name, description, example_usage) ==
  [name |-> name, description |-> description, example_usage |-> example_usage]

\* example_usage of the tools of the repository (tools/chat.py:13-15,
\* tools/calculator.py:25-31, tools/search.py:376-383, tools/rc_car.py:309-)
ExampleUsage(tool) ==
  CASE tool = "chat" -> "Example: {\"response\": \"Hello! How can I help you?\"}"
    [] tool = "advanced_calculator" ->
         "\n        {\n            \"expression\": \"sqrt(16) + 2**3 - 5/2\"\n        }\n        "
    [] tool = "intelligent_search" ->
         "\n        {\n            \"query\": \"best investment opportunities 2025\",\n            \"max_depth\": 2\n        }\n        "
    [] OTHER -> "Example usage scenarios:\n\n1. Move forward at medium speed:\n{\"esp32_ip\": \"192.168.100.66\", \"action\": \"move\", \"direction\": \"forward\", \"speed\": 180}\n"

\* the tool objects of the repository's tool classes
ToolOf(tool) == ToolObject(PyStr(tool), PyStr(tool \o " tool"), PyStr(ExampleUsage(tool)))

\* one value of every JSON kind with its JSON text: boolean, integer,
\* number, mapping, sequence, string, null
ExampleValues ==
  << PyBool(TRUE), PyInt(2), PyFloat("2.5"), PyDict([response |-> PyStr("m")]),
     PyList(<< PyInt(1) >>), PyStr("best"), PyNone >>
ExampleLiterals ==
  << "true", "2", "2.5", "{\"response\": \"m\"}", "[1]", "\"best\"", "null" >>

\* an example_usage with one field of the i-th kind
ExampleText(i) == "Example: {\"query\": " \o ExampleLiterals[i] \o "}"

RECURSIVE Remove(_, _)
\* s.replace(old, "")
Remove(s, old) ==
  LET at == {i \in 1..(Len(s) - Len(old) + 1) : SubSeq(s, i, i + Len(old) - 1) = old}
  IN IF at = {} THEN s
     ELSE LET i == CHOOSE i \in at : \A k \in at : i <= k
          IN SubSeq(s, 1, i - 1) \o Remove(SubSeq(s, i + Len(old), Len(s)), old)

\* example_schema, line 25: json.loads(example_usage.replace("Example:", "").strip());
\* ok is FALSE when it raises (no str, or text that is not one JSON document)
ParseExample(example_usage) ==
  LET failed == [ok |-> FALSE, keys |-> << >>, value |-> EmptyDict] IN
  IF example_usage.t # "str" THEN failed
  ELSE LET text == Strip(Remove(example_usage.v, "Example:")) IN
       IF \E i \in DOMAIN ExampleValues : text = "{\"query\": " \o ExampleLiterals[i] \o "}"
       THEN LET i == CHOOSE i \in DOMAIN ExampleValues :
                       text = "{\"query\": " \o ExampleLiterals[i] \o "}"
            IN [ok |-> TRUE, keys |-> << "query" >>, value |-> [query |-> ExampleValues[i]]]
       ELSE IF \E n \in AllTools : text = Strip(Remove(ExampleUsage(n), "Example:"))
       THEN LET n == CHOOSE n \in AllTools : text = Strip(Remove(ExampleUsage(n), "Example:"))
            IN [ok |-> ExampleParses(n), keys |-> ExampleKeys(n), value |-> Example(n)]
       ELSE failed

\* ToolManager.register_tool: the registry afterwards and the exception;
\* `not tool.name or not tool.description or not hasattr(...)` reads the
\* attributes left to right, and the event data of line 30 reads
\* tool.input_schema, which no tool object has
register_tool(reg, tool, has_bus) ==
  IF tool.name = Absent
  THEN [reg |-> reg, exc |-> Exc("AttributeError", "object has no attribute 'name'")]
  ELSE IF ~Truthy(tool.name)
  THEN [reg |-> reg, exc |-> Exc("ValueError", "[ToolManager] Invalid tool metadata")]
  ELSE IF tool.description = Absent
  THEN [reg |-> reg, exc |-> Exc("AttributeError", "object has no attribute 'description'")]
  ELSE IF ~Truthy(tool.description) \/ tool.example_usage = Absent
  THEN [reg |-> reg, exc |-> Exc("ValueError", "[ToolManager] Invalid tool metadata")]
  ELSE IF tool.name.v \in DOMAIN reg
  THEN [reg |-> reg, exc |-> Exc("ValueError", "Tool '" \o tool.name.v \o "' is already registered.")]
  ELSE [reg |-> [n \in (DOMAIN reg) \cup {tool.name.v} |-> IF n = tool.name.v THEN tool ELSE reg[n]],
        exc |-> IF has_bus
                THEN Exc("AttributeError", "object has no attribute 'input_schema'")
                ELSE NoExc]

\* load_tools_dynamically, lines 32-38: the assertions, then register_tool
\* on its own ToolManager(), which has no event bus; the except clause of
\* line 46 keeps the exception from leaving
load_tool(reg, tool) ==
  IF \/ tool.name = Absent \/ ~Truthy(tool.name)
     \/ tool.description = Absent \/ ~Truthy(tool.description)
     \/ tool.example_usage = Absent \/ ~Truthy(tool.example_usage)
  THEN [reg |-> reg, exc |-> NoExc, printed |-> TRUE]
  ELSE LET r == register_tool(reg, tool, FALSE)
       IN [reg |-> r.reg, exc |-> NoExc, printed |-> r.exc # NoExc]

\* ToolManager.unregister_tool
unregister_tool(reg, name) == [n \in (DOMAIN reg) \ {name} |-> reg[n]]

\* ToolManager.validate_input on a registry of tool objects
validate_registered(reg, name, input_data) ==
  IF name \notin DOMAIN reg
  THEN [ok |-> FALSE, msg |-> "Tool '" \o name \o "' not found."]
  ELSE ValidateSchema(SchemaOf(ParseExample(reg[name].example_usage)), input_data)

(***************************************************************************)
(* The inference backend: the raw texts one streaming attempt can return.  *)
(***************************************************************************)
TxtNotJson == "not json\n"
TxtMissingKeys == "{\"thoughts\": \"t\"}"
TxtChat ==
  " {\"thoughts\": \"t\", \"tool_name\": \"chat\", \"tool_input\": {\"response\": \"R\"}}\n"
TxtChatNoResponse ==
  "{\"thoughts\": \"t\", \"tool_name\": \"chat\", \"tool_input\": {}}"
TxtChatNumber ==
  "{\"thoughts\": \"t\", \"tool_name\": \"chat\", \"tool_input\": {\"response\": 42}}"
TxtCalc ==
  "{\"thoughts\": \"math\", \"tool_name\": \"advanced_calculator\", \"tool_input\": {\"expression\": \"2+2\"}}"
TxtCalcNoField ==
  "{\"thoughts\": \"math\", \"tool_name\": \"advanced_calculator\", \"tool_input\": {}}"
TxtSearch ==
  "{\"thoughts\": \"s\", \"tool_name\": \"intelligent_search\", \"tool_input\": {\"query\": \"q\", \"max_depth\": 2}}"
TxtSearchNoDepth ==
  "{\"thoughts\": \"s\", \"tool_name\": \"intelligent_search\", \"tool_input\": {\"query\": \"q\"}}"
TxtGhost ==
  "{\"thoughts\": \"g\", \"tool_name\": \"ghost\", \"tool_input\": {\"response\": \"R\"}}"
TxtNullTool ==
  "{\"thoughts\": \"n\", \"tool_name\": null, \"tool_input\": {}}"
TxtPlain == "Paris."

\* What the backend can answer to the structured prompt.
BackendTexts ==
  { TxtNotJson, TxtMissingKeys, TxtChat, TxtChatNoResponse, TxtChatNumber,
    TxtCalc, TxtCalcNoField, TxtSearch, TxtSearchNoDepth, TxtGhost,
    TxtNullTool }

\* What the backend can answer to the corrective (plain-answer) prompt.
ReaskTexts == { TxtNotJson, TxtPlain, TxtChat }

\* The fragments of a streaming response: two tokens, the closing fragment
\* without a token, and a line that is no JSON.
FragHe == "{\"response\": \"He\"}"
FragLoW == "{\"response\": \"lo\\nW\"}"
FragDone == "{\"done\": true}"
FragBad == "{\"response\": "
Fragments == { FragHe, FragLoW, FragDone, FragBad }

Envelope(thoughts, tool_name, tool_input) ==
  [thoughts |-> PyStr(thoughts), tool_name |-> tool_name,
   tool_input |-> PyDict(tool_input)]

(***************************************************************************)
(* Numeric literals: what int(s) and float(s) accept on a stripped str and *)
(* the value they give.  A float is held as its repr; literals with an     *)
(* exponent are not among the texts of the model.                          *)
(***************************************************************************)
IsDigit(c) == \E d \in 0..9 : Digit(d) = c

RECURSIVE StrToNat(_)
StrToNat(s) ==
  IF Len(s) = 0 THEN 0
  ELSE 10 * StrToNat(SubSeq(s, 1, Len(s) - 1))
       + (CHOOSE d \in 0..9 : Digit(d) = SubSeq(s, Len(s), Len(s)))

RECURSIVE NoUnderscores(_)
NoUnderscores(s) ==
  IF Len(s) = 0 THEN ""
  ELSE (IF SubSeq(s, 1, 1) = "_" THEN "" ELSE SubSeq(s, 1, 1))
       \o NoUnderscores(SubSeq(s, 2, Len(s)))

\* decimal digits, single underscores allowed between two digits
IsDigits(s) ==
  /\ Len(s) > 0
  /\ IsDigit(SubSeq(s, 1, 1))
  /\ \A i \in 1..Len(s) :
       \/ IsDigit(SubSeq(s, i, i))
       \/ SubSeq(s, i, i) = "_" /\ i < Len(s) /\ IsDigit(SubSeq(s, i + 1, i + 1))

HasSign(s) == Len(s) > 0 /\ SubSeq(s, 1, 1) \in {"+", "-"}
Unsigned(s) == IF HasSign(s) THEN SubSeq(s, 2, Len(s)) ELSE s
IsNegative(s) == Len(s) > 0 /\ SubSeq(s, 1, 1) = "-"

\* int(s) succeeds: an optional sign, then digits
IsIntLiteral(s) == IsDigits(Unsigned(s))

\* int(s)
IntOf(s) ==
  LET n == StrToNat(NoUnderscores(Unsigned(s)))
  IN IF IsNegative(s) THEN 0 - n ELSE n

\* where the decimal point of s is, 0 if it has none
PointAt(s) ==
  IF \E i \in 1..Len(s) : SubSeq(s, i, i) = "."
  THEN CHOOSE i \in 1..Len(s) :
         SubSeq(s, i, i) = "." /\ \A j \in 1..(i - 1) : SubSeq(s, j, j) # "."
  ELSE 0

IntPart(s) == IF PointAt(s) = 0 THEN s ELSE SubSeq(s, 1, PointAt(s) - 1)
FracPart(s) == IF PointAt(s) = 0 THEN "" ELSE SubSeq(s, PointAt(s) + 1, Len(s))

\* float(s) succeeds: inf, infinity or nan in any case, or digits around a point
IsFloatLiteral(s) ==
  LET u == Unsigned(s) IN
  \/ Lower(u) \in {"inf", "infinity", "nan"}
  \/ /\ IntPart(u) = "" \/ IsDigits(IntPart(u))
     /\ FracPart(u) = "" \/ IsDigits(FracPart(u))
     /\ IntPart(u) # "" \/ FracPart(u) # ""

RECURSIVE StripZeros(_)
StripZeros(s) ==
  IF Len(s) > 0 /\ SubSeq(s, Len(s), Len(s)) = "0"
  THEN StripZeros(SubSeq(s, 1, Len(s) - 1)) ELSE s

\* repr(float(s))
FloatRepr(s) ==
  LET u == Unsigned(s)
      frac == StripZeros(NoUnderscores(FracPart(u)))
  IN IF Lower(u) = "nan" THEN "nan"
     ELSE (IF IsNegative(s) THEN "-" ELSE "")
          \o (IF Lower(u) \in {"inf", "infinity"} THEN "inf"
              ELSE NatToStr(StrToNat(NoUnderscores(IntPart(u))))
                   \o "." \o (IF frac = "" THEN "0" ELSE frac))

\* a JSON number without exponent: -? (0 | [1-9] digits) (. digits)?
IsJsonInt(s) ==
  LET u == IF IsNegative(s) THEN SubSeq(s, 2, Len(s)) ELSE s IN
  /\ IsDigits(u) /\ NoUnderscores(u) = u
  /\ u = "0" \/ SubSeq(u, 1, 1) # "0"

IsJsonFloat(s) ==
  /\ PointAt(s) > 0
  /\ IsJsonInt(IntPart(s))
  /\ IsDigits(FracPart(s)) /\ NoUnderscores(FracPart(s)) = FracPart(s)

JSONDecodeError == [t |-> "JSONDecodeError",
                    v |-> "Expecting value: line 1 column 1 (char 0)"]

\* json.loads(s) on the texts above: the parsed value, or JSONDecodeError
json_loads(s) ==
  CASE s = Strip(TxtMissingKeys) -> PyDict([thoughts |-> PyStr("t")])
    [] s = Strip(TxtChat) ->
         PyDict(Envelope("t", PyStr("chat"), [response |-> PyStr("R")]))
    [] s = Strip(TxtChatNoResponse) ->
         PyDict(Envelope("t", PyStr("chat"), EmptyDict))
    [] s = Strip(TxtChatNumber) ->
         PyDict(Envelope("t", PyStr("chat"), [response |-> PyInt(42)]))
    [] s = Strip(TxtCalc) ->
         PyDict(Envelope("math", PyStr("advanced_calculator"),
                         [expression |-> PyStr("2+2")]))
    [] s = Strip(TxtCalcNoField) ->
         PyDict(Envelope("math", PyStr("advanced_calculator"), EmptyDict))
    [] s = Strip(TxtSearch) ->
         PyDict(Envelope("s", PyStr("intelligent_search"),
                         [query |-> PyStr("q"), max_depth |-> PyInt(2)]))
    [] s = Strip(TxtSearchNoDepth) ->
         PyDict(Envelope("s", PyStr("intelligent_search"),
                         [query |-> PyStr("q")]))
    [] s = Strip(TxtGhost) ->
         PyDict(Envelope("g", PyStr("ghost"), [response |-> PyStr("R")]))
    [] s = Strip(TxtNullTool) -> PyDict(Envelope("n", PyNone, EmptyDict))
    [] s = FragHe -> PyDict([response |-> PyStr("He")])
    [] s = FragLoW -> PyDict([response |-> PyStr("lo\nW")])
    [] s = FragDone -> PyDict([done |-> PyBool(TRUE)])
    [] s = "[]" -> PyList(<< >>)
    [] s = "[1, 2]" -> PyList(<< PyInt(1), PyInt(2) >>)
    [] s = "{}" -> PyDict(EmptyDict)
    [] s = "{\"a\": 1}" -> PyDict([a |-> PyInt(1)])
    [] s = "\"x\"" -> PyStr("x")
    [] s = "null" -> PyNone
    [] s \in {"true", "false"} -> PyBool(s = "true")
    [] s \in {"NaN", "Infinity", "-Infinity"} -> PyFloat(FloatRepr(s))
    [] IsJsonInt(s) -> PyInt(IntOf(s))
    [] IsJsonFloat(s) -> PyFloat(FloatRepr(s))
    [] OTHER -> JSONDecodeError

\* LLM_RESPONSE_SCHEMA: the required keys, in order
LLM_RESPONSE_REQUIRED == << "thoughts", "tool_name", "tool_input" >>

\* validate(parsed, LLM_RESPONSE_SCHEMA): the ValidationError message, "" if valid
SchemaError(parsed) ==
  IF parsed.t # "dict" THEN Repr(parsed) \o " is not of type 'object'"
  ELSE LET m == FirstMissing(LLM_RESPONSE_REQUIRED, parsed.v, 1) IN
    IF m # "" THEN "'" \o m \o "' is a required property"
    ELSE IF parsed.v.thoughts.t # "str"
      THEN Repr(parsed.v.thoughts) \o " is not of type 'string'"
    ELSE IF parsed.v.tool_name.t \notin {"str", "NoneType"}
      THEN Repr(parsed.v.tool_name) \o " is not of type 'string', 'null'"
    ELSE IF parsed.v.tool_input.t # "dict"
      THEN Repr(parsed.v.tool_input) \o " is not of type 'object'"
    ELSE ""

\* the envelope has its three keys, whatever tool it names
_validate_keys_only(result, tool_names) ==
  /\ result.t = "dict"
  /\ \A i \in 1..Len(LLM_RESPONSE_REQUIRED) :
        LLM_RESPONSE_REQUIRED[i] \in DOMAIN result.v

\* LLMReasoner._validate_reasoning_result
_validate_reasoning_result(result, tool_names) ==
  /\ result.t = "dict"
  /\ \A i \in 1..Len(LLM_RESPONSE_REQUIRED) :
        LLM_RESPONSE_REQUIRED[i] \in DOMAIN result.v
  /\ result.v.tool_name.t = "str"
  /\ result.v.tool_name.v \in tool_names

_fallback_response_no_tool(input) ==
  Envelope("LLM reasoning failed.", PyNone, EmptyDict)

\* LLMReasoner._fallback_response
_fallback_response(input) ==
  Envelope("LLM reasoning failed, falling back to chat response.",
           PyStr("chat"),
           [response |-> PyStr(
              "I'm having trouble processing that request. Could you rephrase it? You asked: "
              \o input)])

\* think, lines 140-141: the fallback with the failure in its thoughts
error_fallback(input, e) ==
  [_fallback_response(input) EXCEPT
     !.thoughts = PyStr("LLM Reasoning failed: " \o e \o ". Falling back to chat.")]


fallback_parsed_raw(e, fallback_response_str) ==
  Envelope("Invalid LLM output, attempted rephrasing. Original error: " \o e,
           PyStr("chat"), [response |-> PyStr(fallback_response_str)])

\* think, lines 116-122: tier (b), the corrective re-ask answered
fallback_parsed(e, fallback_response_str) ==
  Envelope("Invalid LLM output, attempted rephrasing. Original error: " \o e,
           PyStr("chat"), [response |-> PyStr(Strip(fallback_response_str))])

\* think, lines 127-133: tier (c), the raw text of the initial attempt
final_fallback_parsed(e, inner_e, response_str) ==
  Envelope("Double LLM failure. Initial error: " \o e
             \o ". Fallback error: " \o inner_e,
           PyStr("chat"),
           [response |-> PyStr("Raw LLM output from initial attempt: "
                               \o Strip(response_str))])

\* _try_call_llm, line 235
RetriesExhausted(last_error) ==
  "LLM failed after " \o NatToStr(Retries) \o " retries: " \o last_error

\* _call_llm_stream, line 203 (the backend answers 503 when it fails)
HttpError == "LLM returned HTTP 503"

RECURSIVE StreamLines(_)
\* The lines _call_llm_stream forwards to token_callback for one text:
\* every completed line with its "\n", then the trailing partial line.
StreamLines(text) ==
  IF Len(text) = 0 THEN << >>
  ELSE IF \E i \in 1..Len(text) : SubSeq(text, i, i) = "\n"
       THEN LET i == CHOOSE j \in 1..Len(text) :
                       /\ SubSeq(text, j, j) = "\n"
                       /\ \A k \in 1..(j - 1) : SubSeq(text, k, k) # "\n"
            IN << SubSeq(text, 1, i) >> \o StreamLines(SubSeq(text, i + 1, Len(text)))
       ELSE << text >>

(***************************************************************************)
(* Memory (memory/buffer_memory.py, memory/vector_memory.py).  Timestamps  *)
(* and the session id of an entry are not part of this model.              *)
(***************************************************************************)
Entry(role, content, metadata) ==
  [role |-> role, content |-> content, metadata |-> metadata]

\* EnhancedBufferMemory.save: append, then keep the last `limit` entries
BufferSave(hist, role, content, metadata) ==
  LET h == Append(hist, Entry(role, content, metadata))
  IN IF Len(h) > MemoryLimit THEN LastN(h, MemoryLimit) ELSE h

\* VectorMemory.save(role, content, tags=None)
VectorSave(hist, role, content) ==
  Append(hist, [role |-> role, content |-> content, tags |-> << >>])

\* a list that takes every assignment as a new item
SetItemAppend(items, key, value) ==
  Append(items, [key |-> key, value |-> value])

\* save_context, lines 46-50: d[key] = value on a dict in insertion order
SetItem(items, key, value) ==
  IF \E i \in 1..Len(items) : items[i].key = key
  THEN [i \in 1..Len(items) |->
          IF items[i].key = key THEN [key |-> key, value |-> value] ELSE items[i]]
  ELSE Append(items, [key |-> key, value |-> value])

\* EnhancedBufferMemory.save_context: the facts of a category, keyed by key;
\* categories and keys keep their insertion order
save_context(ctx, key, value, category) ==
  IF \E i \in 1..Len(ctx) : ctx[i].category = category
  THEN [i \in 1..Len(ctx) |->
          IF ctx[i].category = category
          THEN [category |-> category, items |-> SetItem(ctx[i].items, key, value)]
          ELSE ctx[i]]
  ELSE Append(ctx, [category |-> category,
                    items |-> << [key |-> key, value |-> value] >>])

\* str.upper() of the category names in use
Upper(category) ==
  CASE category = "tool_usage" -> "TOOL_USAGE"
    [] category = "learned_facts" -> "LEARNED_FACTS"
    [] OTHER -> category

RECURSIVE EntryLines(_)
EntryLines(entries) ==
  IF Len(entries) = 0 THEN << >>
  ELSE << entries[1].role \o ": " \o entries[1].content >> \o EntryLines(Tail(entries))

RECURSIVE ItemLines(_)
ItemLines(items) ==
  IF Len(items) = 0 THEN << >>
  ELSE << "  - " \o items[1].key \o ": " \o PyToStr(items[1].value) >>
       \o ItemLines(Tail(items))

RECURSIVE CategoryLines(_)
CategoryLines(ctx) ==
  IF Len(ctx) = 0 THEN << >>
  ELSE << Upper(ctx[1].category) \o ":" >> \o ItemLines(ctx[1].items)
       \o CategoryLines(Tail(ctx))

\* EnhancedBufferMemory.get_conversation_context
get_conversation_context(hist, ctx, last_n) ==
  LET recent == IF Len(hist) > 0 THEN LastN(hist, last_n) ELSE << >>
      parts == (IF Len(recent) > 0
                THEN << "RECENT CONVERSATION:" >> \o EntryLines(recent)
                ELSE << >>)
               \o (IF Len(ctx) > 0
                   THEN << "\nRELEVANT CONTEXT:" >> \o CategoryLines(ctx)
                   ELSE << >>)
  IN JoinWith(parts, "\n")

\* MemoryEnhancedReasoner.inject_memory_context
inject_memory_context(prompt, hist, ctx, context_limit) ==
  LET conversation_context == get_conversation_context(hist, ctx, context_limit)
  IN IF Len(conversation_context) > 0
     THEN "CONVERSATION CONTEXT:\n" \o conversation_context
          \o "\n\nCURRENT REQUEST:\n" \o prompt
          \o "\n\nPlease consider the above context when responding. Reference previous conversations when relevant."
     ELSE prompt

\* MemoryEnhancedReasoner.extract_learnable_info: the fact types learned
\* from the input, in insertion order
extract_learnable_info(user_input) ==
  LET user_lower == Lower(user_input) IN
  (IF Contains(user_lower, "i like") \/ Contains(user_lower, "i prefer")
   THEN << "preference" >> ELSE << >>)
  \o (IF Contains(user_lower, "i am") \/ Contains(user_lower, "my name is")
      THEN << "user_fact" >> ELSE << >>)
  \o (IF Contains(user_lower, "remember") \/ Contains(user_lower, "note that")
      THEN << "important_note" >> ELSE << >>)

(***************************************************************************)
(* EnhancedBufferMemory and its persisted file (memory/buffer_memory.py).  *)
(* A JSON document is a tree of [j, v] nodes; json.dump builds it from the *)
(* Python value and json.load builds Python values from it.                *)
(***************************************************************************)
RECURSIVE ToJson(_)
\* json.dump of a value: a tuple is written as an array like a list
ToJson(x) ==
  CASE x.t = "str" -> [j |-> "string", v |-> x.v]
    [] x.t = "int" -> [j |-> "number", v |-> x.v]
    [] x.t = "bool" -> [j |-> "boolean", v |-> x.v]
    [] x.t = "dict" -> [j |-> "object", v |-> [k \in DOMAIN x.v |-> ToJson(x.v[k])]]
    [] x.t \in {"list", "tuple"} ->
         [j |-> "array", v |-> [i \in DOMAIN x.v |-> ToJson(x.v[i])]]
    [] OTHER -> [j |-> "null"]

RECURSIVE FromJson(_)
\* json.load of a document: every array comes back as a list
FromJson(d) ==
  CASE d.j = "string" -> PyStr(d.v)
    [] d.j = "number" -> PyInt(d.v)
    [] d.j = "boolean" -> PyBool(d.v)
    [] d.j = "object" -> PyDict([k \in DOMAIN d.v |-> FromJson(d.v[k])])
    [] d.j = "array" -> PyList([i \in DOMAIN d.v |-> FromJson(d.v[i])])
    [] OTHER -> PyNone

\* save, lines 23-29: the entry dict; `metadata or {}`
StampedEntry(timestamp, session, role, content, metadata) ==
  [timestamp |-> timestamp, session_id |-> session, role |-> role,
   content |-> content,
   metadata |-> IF Truthy(metadata) THEN metadata.v ELSE EmptyDict]

\* datetime.now().isoformat() and strftime("%Y%m%d_%H%M%S") at instant n
isoformat(n) == "T" \o NatToStr(n)
strftime(n) == "S" \o NatToStr(n)

\* seq[-n:] for n >= 0: seq[-0:] is seq[0:], the whole sequence
NegSlice(seq, n) == IF n = 0 THEN seq ELSE LastN(seq, n)

\* save, lines 31-36: append, then cut to the last `limit` entries
save(hist, entry, lim) ==
  LET h == Append(hist, entry)
  IN IF Len(h) > lim THEN NegSlice(h, lim) ELSE h

\* an entry written without its metadata
EntryToJsonBare(e) ==
  [j |-> "object",
   v |-> [timestamp |-> ToJson(PyStr(e.timestamp)),
          session_id |-> ToJson(PyStr(e.session_id)),
          role |-> ToJson(PyStr(e.role)),
          content |-> ToJson(PyStr(e.content)),
          metadata |-> ToJson(PyDict(EmptyDict))]]

\* json.dump of an entry of the history
EntryToJson(e) ==
  [j |-> "object",
   v |-> [timestamp |-> ToJson(PyStr(e.timestamp)),
          session_id |-> ToJson(PyStr(e.session_id)),
          role |-> ToJson(PyStr(e.role)),
          content |-> ToJson(PyStr(e.content)),
          metadata |-> ToJson(PyDict(e.metadata))]]

EntryFromJson(d) ==
  LET e == FromJson(d).v
  IN [timestamp |-> e.timestamp.v, session_id |-> e.session_id.v,
      role |-> e.role.v, content |-> e.content.v, metadata |-> e.metadata.v]

FactsToJson(ctx) ==
  [i \in DOMAIN ctx |->
     [category |-> ctx[i].category,
      items |-> [k \in DOMAIN ctx[i].items |->
                   [key |-> ctx[i].items[k].key,
                    value |-> ToJson(ctx[i].items[k].value)]]]]

FactsFromJson(doc) ==
  [i \in DOMAIN doc |->
     [category |-> doc[i].category,
      items |-> [k \in DOMAIN doc[i].items |->
                   [key |-> doc[i].items[k].key,
                    value |-> FromJson(doc[i].items[k].value)]]]]

\* the file: absent, holding a JSON document, or holding text that does not parse
NoFile == [state |-> "absent"]
BrokenFile == [state |-> "unparsable"]
JsonFile(hist, ctx, now) ==
  [state |-> "json",
   conversation_history |-> [i \in DOMAIN hist |-> EntryToJson(hist[i])],
   context_memory |-> FactsToJson(ctx),
   last_updated |-> isoformat(now)]

\* How a write of the file goes: written; makedirs or open raises and the
\* file stays as it was; json.dump raises after open(..., 'w') emptied it.
WriteOutcomes == {"written", "not_opened", "cut_short"}

PrintOp(text) == [op |-> "print", text |-> text]

\* _persist_memory without its try/except
_persist_memory_unguarded(file, hist, ctx, now, w) ==
  CASE w = "written" -> [file |-> JsonFile(hist, ctx, now), exc |-> NoExc, printed |-> << >>]
    [] w = "not_opened" ->
         [file |-> file, exc |-> Exc("PermissionError", "[Errno 13] Permission denied"), printed |-> << >>]
    [] OTHER ->
         [file |-> BrokenFile, exc |-> Exc("OSError", "[Errno 28] No space left on device"), printed |-> << >>]

\* _persist_memory: any Exception of the write is printed as a warning
_persist_memory(file, hist, ctx, now, w) ==
  CASE w = "written" -> [file |-> JsonFile(hist, ctx, now), exc |-> NoExc, printed |-> << >>]
    [] w = "not_opened" ->
         [file |-> file, exc |-> NoExc,
          printed |-> << PrintOp("Warning: Could not persist memory: [Errno 13] Permission denied") >>]
    [] OTHER ->
         [file |-> BrokenFile, exc |-> NoExc,
          printed |-> << PrintOp("Warning: Could not persist memory: [Errno 28] No space left on device") >>]

\* _load_persistent_memory: the history and facts of a new instance
_load_persistent_memory(file) ==
  CASE file.state = "absent" -> [history |-> << >>, context |-> << >>, printed |-> << >>]
    [] file.state = "json" ->
         LET hist == [i \in DOMAIN file.conversation_history |->
                        EntryFromJson(file.conversation_history[i])]
         IN [history |-> hist, context |-> FactsFromJson(file.context_memory),
             printed |-> << PrintOp("Loaded " \o NatToStr(Len(hist))
                                    \o " conversation entries from persistent memory") >>]
    [] OTHER ->
         [history |-> << >>, context |-> << >>,
          printed |-> << PrintOp("Warning: Could not load persistent memory: Expecting value: line 1 column 1 (char 0)") >>]

\* the keys of the metadata dicts the kernel passes, in insertion order
MetadataKeys == << "type", "tool_name", "tool_input", "success", "response_length" >>

RECURSIVE MetadataItems(_, _, _)
MetadataItems(d, i, first) ==
  IF i > Len(MetadataKeys) THEN ""
  ELSE IF MetadataKeys[i] \in DOMAIN d
       THEN (IF first THEN "" ELSE ", ") \o "'" \o MetadataKeys[i] \o "': "
            \o Repr(d[MetadataKeys[i]]) \o MetadataItems(d, i + 1, FALSE)
       ELSE MetadataItems(d, i + 1, first)

\* recall, lines 62-66: one formatted line per entry
FormattedEntry(e) ==
  "[" \o e.timestamp \o "] " \o e.role \o ": " \o e.content
  \o (IF DOMAIN e.metadata # {}
      THEN " (metadata: {" \o MetadataItems(e.metadata, 1, TRUE) \o "})" ELSE "")

RECURSIVE RecallEntries(_, _)
RecallEntries(entries, query) ==
  IF Len(entries) = 0 THEN << >>
  ELSE (IF Len(query) = 0 \/ Contains(Lower(entries[1].content), Lower(query))
        THEN << FormattedEntry(entries[1]) >> ELSE << >>)
       \o RecallEntries(Tail(entries), query)

RECURSIVE RecallItems(_)
RecallItems(items) ==
  IF Len(items) = 0 THEN << >>
  ELSE << "  " \o items[1].key \o ": " \o PyToStr(items[1].value) >>
       \o RecallItems(Tail(items))

RECURSIVE RecallCategories(_)
RecallCategories(ctx) ==
  IF Len(ctx) = 0 THEN << >>
  ELSE << "[" \o Upper(ctx[1].category) \o "]" >> \o RecallItems(ctx[1].items)
       \o RecallCategories(Tail(ctx))

\* recall(query, include_context, limit); lim = 0 stands for limit=None
recall(hist, ctx, query, include_context, lim) ==
  RecallEntries(IF lim # 0 THEN NegSlice(hist, lim) ELSE hist, query)
  \o (IF include_context /\ Len(ctx) > 0
      THEN << "\n--- CONTEXT MEMORY ---" >> \o RecallCategories(ctx) ELSE << >>)

(***************************************************************************)
(* Field completion (core/tool_prompt.py).                                 *)
(***************************************************************************)
JsonValue(x) ==
  CASE x.t = "str" -> "\"" \o x.v \o "\""
    [] x.t = "int" -> NatToStr(x.v)
    [] x.t = "bool" -> IF x.v THEN "true" ELSE "false"
    [] OTHER -> "null"

RECURSIVE JsonItems(_, _, _)
JsonItems(d, i, first) ==
  IF i > Len(KeyOrder) THEN ""
  ELSE IF KeyOrder[i] \in DOMAIN d
       THEN (IF first THEN "" ELSE ",\n") \o "  \"" \o KeyOrder[i] \o "\": "
            \o JsonValue(d[KeyOrder[i]]) \o JsonItems(d, i + 1, FALSE)
       ELSE JsonItems(d, i + 1, first)

\* json.dumps(d, indent=2) of a flat dict (escaping is not modelled)
json_dumps(d) ==
  IF DOMAIN d = {} THEN "{}" ELSE "{\n" \o JsonItems(d, 1, TRUE) \o "\n}"

TypeInstruction(field_type) ==
  CASE field_type = "boolean" -> "\nRespond with only: true or false"
    [] field_type = "integer" -> "\nRespond with only a number (integer)"
    [] field_type = "number" -> "\nRespond with only a number"
    [] field_type = "array" ->
         "\nRespond with a JSON array format: [item1, item2, ...]"
    [] field_type = "object" ->
         "\nRespond with a JSON object format: {\"key\": \"value\"}"
    [] OTHER -> "\nRespond with only the text/string value"

\* ToolPromptHandler._build_field_prompt
_build_field_prompt(tool_name, field_name, field_type, field_description, user_input, current_input, custom_prompt) ==
  Strip("\nYou are helping to fill missing required fields for the '"
        \o tool_name \o "' tool.\n\nUser's original request: \"" \o user_input
        \o "\"\n\nMissing field: " \o field_name
        \o "\nField type: " \o field_type
        \o "\nField description: " \o field_description
        \o "\n\nCurrent tool input: " \o json_dumps(current_input)
        \o "\n\n" \o custom_prompt
        \o "\n\nBased on the user's request, what should the value be for the '"
        \o field_name
        \o "' field?\nRespond ONLY with the field value, no explanations or extra text.\n"
        \o TypeInstruction(field_type))

ValueError == [t |-> "ValueError", v |-> "invalid literal"]

\* _parse_field_value, lines 157-166: the value returned inside the try, or
\* the exception int, float or json.loads raises
Coerce(response, field_type) ==
  CASE field_type = "boolean" ->
         PyBool(Lower(response) \in {"true", "yes", "1", "on"})
    [] field_type = "integer" ->
         IF IsIntLiteral(response) THEN PyInt(IntOf(response)) ELSE ValueError
    [] field_type = "number" ->
         IF IsFloatLiteral(response) THEN PyFloat(FloatRepr(response))
         ELSE ValueError
    [] field_type \in {"array", "object"} -> json_loads(response)
    [] OTHER -> PyStr(response)

\* except (ValueError, json.JSONDecodeError), line 168
CaughtByParse == {"ValueError", "JSONDecodeError"}

\* ToolPromptHandler._parse_field_value
_parse_field_value(response_in, field_type) ==
  LET response == Strip(response_in)
      value == Coerce(response, field_type)
  IN IF value.t \in CaughtByParse THEN PyStr(response) ELSE value

(***************************************************************************)
(* State.                                                                  *)
(***************************************************************************)
VARIABLES
  config,       \* how the kernel was constructed: memory and reasoner class,
                \* debug flags, registered tools, events with a raising subscriber
  pc,           \* where AgentKernel.run is
  turn,         \* number of inputs acquired so far
  history,      \* the memory's conversation history
  context,      \* EnhancedBufferMemory._context_memory
  user_input,   \* run: user_input
  think_input,  \* think: input (the augmented prompt)
  call,         \* think: which _try_call_llm is running ("initial", "reask")
  attempt,      \* _try_call_llm: failed attempts of the running call
  response_str, \* think: response_str, the raw text of the initial call
  parse_error,  \* think: str(e) of the parse or schema failure
  envelope,     \* run: reasoning_result
  tool_input,   \* run: tool_input after field filling
  exc,          \* the exception the turn boundary is handling
  outcome,      \* the terminal point the last finished turn reached
  log,          \* the calls of the current turn, in order: outputs, saves,
                \* facts, events, backend attempts, completions, tool runs
  limit,        \* EnhancedBufferMemory.limit
  persist_file, \* the file at EnhancedBufferMemory.persist_file
  clock,        \* datetime.now(), as the number of calls on the store so far
  session_id,   \* EnhancedBufferMemory._session_id
  saved,        \* every entry the store took in, loaded or saved, in order
  _tools,       \* ToolManager._tools: the tool object registered under a name
  event_bus,    \* whether ToolManager.event_bus is set
  search_pc,    \* where IntelligentSearchTool.run is
  tasks,        \* the coroutines handed to the asyncio.gather in progress
  urls,         \* run: urls, the URLs still to scrape
  iteration,    \* run: iteration
  scraped_urls, \* IntelligentSearchTool.scraped_urls
  collected_data, \* IntelligentSearchTool.collected_data
  result,       \* what run returned
  _subscribers, \* EventBus._subscribers: event name -> callbacks, in order
  stream_pc,    \* where _call_llm_stream is
  body,         \* the fragments the backend sent, one line each
  chunks,       \* response.iter_text(): the body as the text chunks that arrive
  chunk_i,      \* how many chunks the loop has taken
  full_text,    \* _call_llm_stream: full_text
  line_buffer,  \* _call_llm_stream: line_buffer
  forwarded,    \* the arguments token_callback was called with, in order
  token_callback, \* whether a token_callback was passed
  car_pc,       \* where ESP32RCCarTool.run is
  car_request,  \* the HTTP request run has sent and is awaiting the answer of
  car_result    \* what ESP32RCCarTool.run returned

\* the store and its file, followed call by call in SpecMemory; the kernel's
\* turns are followed on the in-memory history and facts alone
memvars == << limit, persist_file, clock, session_id, saved >>

\* the registry of tool objects, followed call by call in SpecRegistry; the
\* kernel's turns read the names registered at construction (config.tools)
regvars == << _tools, event_bus >>

\* one run of the web-search tool, followed await by await in SpecSearch
searchvars == << search_pc, tasks, urls, iteration, scraped_urls, collected_data, result >>

\* an event bus of its own, followed call by call in SpecBus; the kernel's
\* turns follow their emits in the log
busvars == << _subscribers >>

\* one attempt of LLMReasoner._call_llm_stream, followed chunk by chunk in
\* SpecStream; the kernel's turns take the text an attempt returns as one step
streamvars == << stream_pc, body, chunks, chunk_i, full_text, line_buffer, forwarded, token_callback >>

\* one run of the RC-car tool, followed from the call to the device's answer
\* in SpecCar
carvars == << car_pc, car_request, car_result >>

vars == << config, pc, turn, history, context, user_input, think_input, call,
           attempt, response_str, parse_error, envelope, tool_input, exc,
           outcome, log, memvars, regvars, searchvars, busvars, streamvars, carvars >>

NoEnvelope == [k \in {} |-> PyNone]

(***************************************************************************)
(* The calls a step makes, executed in order until one of them raises.     *)
(***************************************************************************)
EmitOp(name, data) == [op |-> "emit", name |-> name, data |-> data]
\* an emit inside a try block whose handler swallows the exception
EmitCaughtOp(name, data) == [op |-> "emit_caught", name |-> name, data |-> data]
\* memory.save(role, content, metadata={...})
SaveOp(role, content, metadata) ==
  [op |-> "save", role |-> role, content |-> content, metadata |-> metadata,
   kw |-> TRUE]
\* memory.save(role, content)
SavePlainOp(role, content) ==
  [op |-> "save", role |-> role, content |-> content, metadata |-> EmptyDict,
   kw |-> FALSE]
ContextOp(key, value, category) ==
  [op |-> "save_context", key |-> key, value |-> value, category |-> category]
OutputOp(message) == [op |-> "output", message |-> message]
RaiseOp(type, msg) == [op |-> "raise", type |-> type, msg |-> msg]
RunOp(tool, input, output) ==
  [op |-> "run", tool |-> tool, input |-> input, output |-> output]
\* tools.validate_input(tool_name, tool_input) and what it returned
ValidateOp(name, input, valid) ==
  [op |-> "validate", tool |-> name, input |-> input, ok |-> valid.ok,
   msg |-> valid.msg]
\* reasoner.think(input=prompt, memory, tools=None) for a field, and its answer
ThinkOp(field, answer) ==
  [op |-> "think", tools |-> "None", field |-> field, answer |-> answer]
\* one attempt of _call_llm_stream: the text it returned, "" if it raised
LLMOp(c, ok, text) == [op |-> "llm", call |-> c, ok |-> ok, text |-> text]

\* a call on the store or on the registry, with its argument
CallOp(name, arg) == [op |-> name, arg |-> arg]

Logged(st, op) == [st EXCEPT !.log = Append(@, op)]

\* EventBus.emit: every subscriber of the event is called; one that raises
\* ends the emit with its exception
EmitRaises(name) == name \in config.bad_subscribers

Apply(op, st) ==
  CASE op.op = "emit" ->
         IF EmitRaises(op.name)
         THEN [Logged(st, op) EXCEPT !.exc = Exc("RuntimeError", "subscriber failed")]
         ELSE Logged(st, op)
    [] op.op = "save" ->
         IF config.memory = "VectorMemory"
         THEN IF op.kw
              THEN [st EXCEPT !.exc =
                      Exc("TypeError",
                          "save() got an unexpected keyword argument 'metadata'")]
              ELSE [Logged(st, op) EXCEPT
                      !.history = VectorSave(@, op.role, op.content)]
         ELSE [Logged(st, op) EXCEPT
                 !.history = BufferSave(@, op.role, op.content, op.metadata)]
    [] op.op = "save_context" ->
         \* guarded by hasattr(self.memory, 'save_context')
         IF config.memory = "VectorMemory" THEN st
         ELSE [Logged(st, op) EXCEPT
                 !.context = save_context(@, op.key, op.value, op.category)]
    [] op.op = "output" ->
         IF st.out_fails THEN [st EXCEPT !.exc = Exc("OSError", "output failed")]
         ELSE Logged(st, op)
    [] op.op = "raise" -> [st EXCEPT !.exc = Exc(op.type, op.msg)]
    [] OTHER -> Logged(st, op)

RECURSIVE Exec(_, _, _)
Exec(ops, i, st) ==
  IF i > Len(ops) \/ st.exc # NoExc THEN st
  ELSE Exec(ops, i + 1, Apply(ops[i], st))

\* The state the calls of a step start from.
Start(out_fails) ==
  [history |-> history, context |-> context, log |-> log, exc |-> NoExc,
   out_fails |-> out_fails]

Handled(st) == [st EXCEPT !.exc = NoExc]

Commit(st) ==
  /\ history' = st.history
  /\ context' = st.context
  /\ log' = st.log

When(cond, ops) == IF cond THEN ops ELSE << >>

\* Whether interface.output raises during a step.
OutFails == IF config.flaky_output THEN BOOLEAN ELSE { FALSE }

(***************************************************************************)
(* Configurations the kernel is constructed with.                          *)
(***************************************************************************)
FullRegistry == {"chat", "advanced_calculator", "intelligent_search"}

Config(memory, reasoner, debug_mode, reasoner_debug, tools, bad) ==
  [memory |-> memory, reasoner |-> reasoner, debug_mode |-> debug_mode,
   reasoner_debug |-> reasoner_debug, tools |-> tools, bad_subscribers |-> bad,
   flaky_output |-> FALSE]

\* runner.py builds the first one; the others vary one constructor argument,
\* the set of loaded tools, a subscriber, or the interface (flaky_output: its
\* output may raise).  "Reasoner" is any implementation
\* of the abstract Reasoner; on_llm_stream_line never has a raising subscriber.
Configs ==
  { Config("EnhancedBufferMemory", "LLMReasoner", FALSE, FALSE, FullRegistry, {}),
    Config("EnhancedBufferMemory", "LLMReasoner", FALSE, FALSE,
           {"advanced_calculator"}, {}),
    Config("EnhancedBufferMemory", "LLMReasoner", TRUE, TRUE, FullRegistry, {}),
    Config("EnhancedBufferMemory", "LLMReasoner", FALSE, TRUE, FullRegistry,
           {"on_thought"}),
    Config("EnhancedBufferMemory", "LLMReasoner", FALSE, TRUE, FullRegistry, {}),
    Config("EnhancedBufferMemory", "LLMReasoner", FALSE, FALSE, FullRegistry,
           {"on_tool_used"}),
    Config("EnhancedBufferMemory", "LLMReasoner", FALSE, FALSE, FullRegistry,
           {"on_llm_response", "on_error"}),
    Config("VectorMemory", "LLMReasoner", FALSE, FALSE, FullRegistry, {}),
    [Config("EnhancedBufferMemory", "LLMReasoner", FALSE, FALSE, FullRegistry, {})
       EXCEPT !.flaky_output = TRUE],
    Config("EnhancedBufferMemory", "Reasoner", FALSE, FALSE,
           {"advanced_calculator", "intelligent_search"}, {}),
    Config("EnhancedBufferMemory", "Reasoner", TRUE, FALSE,
           {"advanced_calculator", "intelligent_search"}, {}) }

\* What the interface can deliver.
UserInputs == { "What is 2+2?", "Remember I am Al" }

(***************************************************************************)
(* LLMReasoner.think, from the first backend request to its return.        *)
(***************************************************************************)
Returned(st, env) == [st |-> st, raised |-> FALSE, env |-> env]

\* think, lines 138-144: the outer handler
OuterExcept(st, e) ==
  LET env == error_fallback(think_input, e)
      st1 == Exec(When(config.reasoner_debug, << EmitOp("on_thought", env) >>),
                  1, Handled(st))
  IN [st |-> st1, raised |-> st1.exc # NoExc, env |-> env]

\* think, lines 126-136: the corrective call failed
TierC(st, e, inner_e) ==
  LET env == final_fallback_parsed(e, inner_e, response_str)
      st1 == Exec(When(config.reasoner_debug, << EmitOp("on_thought", env) >>),
                  1, Handled(st))
  IN IF st1.exc = NoExc THEN Returned(st1, env)
     ELSE OuterExcept(st1, st1.exc.msg)

\* think, lines 111-125: the corrective call answered
TierB(st, e, fallback_response_str) ==
  LET env == fallback_parsed(e, fallback_response_str)
      st1 == Exec(When(config.reasoner_debug,
                       << EmitOp("on_llm_response",
                                 [response |-> fallback_response_str,
                                  note |-> "Fallback due to parsing error"]),
                          EmitOp("on_thought", env) >>),
                  1, st)
  IN IF st1.exc = NoExc THEN Returned(st1, env)
     ELSE TierC(st1, e, st1.exc.msg)

\* every text is taken for malformed
ParseErrorAlways(text) == "malformed"

\* think, lines 91-93 and 101: str(e) of the JSONDecodeError or ValidationError
\* the text raises, "" if it raises none
ParseError(text) ==
  LET parsed == json_loads(Strip(text))
  IN IF parsed.t = "JSONDecodeError" THEN parsed.v ELSE SchemaError(parsed)

\* think, lines 78-101: after the initial call returned `text`
AfterInitial(st, text) ==
  LET lines == StreamLines(text)
      ops == [i \in 1..Len(lines) |->
                EmitCaughtOp("on_llm_stream_line", [line |-> lines[i]])]
             \o << SavePlainOp("llm_transcript", JoinWith(lines, "\n")),
                   IF config.reasoner_debug
                   THEN EmitOp("on_llm_response", [response |-> text])
                   ELSE EmitOp("on_llm_response",
                               [input |-> think_input, raw_response |-> text,
                                transcript |-> lines]) >>
      st1 == Exec(ops, 1, st)
      parsed == json_loads(Strip(text))
      err == ParseError(text)
  IN IF st1.exc # NoExc
       THEN [next |-> "done", r |-> OuterExcept(st1, st1.exc.msg), e |-> ""]
     ELSE IF err # ""
       THEN [next |-> "reask", r |-> Returned(st1, NoEnvelope), e |-> err]
     ELSE IF ~_validate_reasoning_result(parsed, config.tools)
       THEN [next |-> "done", r |-> Returned(st1, _fallback_response(think_input)),
             e |-> ""]
     ELSE LET st2 == Exec(When(config.reasoner_debug,
                               << EmitOp("on_thought", parsed.v) >>), 1, st1)
          IN IF st2.exc = NoExc
             THEN [next |-> "done", r |-> Returned(st2, parsed.v), e |-> ""]
             ELSE [next |-> "done", r |-> OuterExcept(st2, st2.exc.msg), e |-> ""]

\* think returns r.env to the kernel, or raises r.st.exc
ThinkFinish(r) ==
  /\ Commit(r.st)
  /\ IF r.raised
     THEN pc' = "except" /\ exc' = r.st.exc /\ envelope' = NoEnvelope
     ELSE pc' = "dispatch" /\ exc' = NoExc /\ envelope' = r.env

\* think, lines 42-66: compose the prompt
ThinkStart ==
  /\ pc = "think"
  /\ config.reasoner = "LLMReasoner"
  /\ LET st1 == Exec(When(config.reasoner_debug,
                          << EmitOp("on_llm_prompt", [input |-> think_input]) >>),
                     1, Start(FALSE))
     IN IF st1.exc = NoExc
        THEN /\ Commit(st1)
             /\ pc' = "llm_call" /\ call' = "initial" /\ attempt' = 0
             /\ UNCHANGED << exc, envelope >>
        ELSE /\ ThinkFinish(OuterExcept(st1, st1.exc.msg))
             /\ UNCHANGED << call, attempt >>
  /\ UNCHANGED << config, turn, user_input, think_input, response_str,
                  parse_error, tool_input, outcome >>
  /\ UNCHANGED << memvars, regvars, searchvars, busvars, streamvars, carvars >>

_try_call_llm_never_raises(failed) == FALSE

\* _try_call_llm, lines 229-235: the loop is over and the call raises once
\* `failed` attempts have raised
_try_call_llm_raises(failed) == failed >= Retries

\* _try_call_llm: one attempt of _call_llm_stream raises
LLMFail ==
  /\ pc = "llm_call"
  /\ attempt < Retries
  /\ attempt' = attempt + 1
  /\ LET st1 == Logged(Start(FALSE), LLMOp(call, FALSE, ""))
     IN IF ~_try_call_llm_raises(attempt + 1)
        THEN Commit(st1) /\ UNCHANGED << pc, exc, envelope >>
        ELSE IF call = "initial"
             THEN ThinkFinish(OuterExcept(st1, RetriesExhausted(HttpError)))
             ELSE ThinkFinish(TierC(st1, parse_error, RetriesExhausted(HttpError)))
  /\ UNCHANGED << config, turn, user_input, think_input, call, response_str,
                  parse_error, tool_input, outcome >>
  /\ UNCHANGED << memvars, regvars, searchvars, busvars, streamvars, carvars >>

\* _try_call_llm(prompt, token_callback=stream_callback): an attempt succeeds
LLMInitialOk(text) ==
  /\ pc = "llm_call"
  /\ call = "initial"
  /\ attempt < Retries
  /\ response_str' = text
  /\ LET a == AfterInitial(Logged(Start(FALSE), LLMOp("initial", TRUE, text)), text)
     IN IF a.next = "reask"
        THEN /\ Commit(a.r.st)
             /\ call' = "reask" /\ attempt' = 0 /\ parse_error' = a.e
             /\ UNCHANGED << pc, exc, envelope >>
        ELSE /\ ThinkFinish(a.r)
             /\ UNCHANGED << call, attempt, parse_error >>
  /\ UNCHANGED << config, turn, user_input, think_input, tool_input, outcome >>
  /\ UNCHANGED << memvars, regvars, searchvars, busvars, streamvars, carvars >>

\* _try_call_llm(fallback_prompt): an attempt of the corrective call succeeds
LLMReaskOk(text) ==
  /\ pc = "llm_call"
  /\ call = "reask"
  /\ attempt < Retries
  /\ ThinkFinish(TierB(Logged(Start(FALSE), LLMOp("reask", TRUE, text)),
                       parse_error, text))
  /\ UNCHANGED << config, turn, user_input, think_input, call, attempt,
                  response_str, parse_error, tool_input, outcome >>
  /\ UNCHANGED << memvars, regvars, searchvars, busvars, streamvars, carvars >>

(***************************************************************************)
(* Any other Reasoner (reasoning/base_reasoner.py): think returns some     *)
(* envelope or raises.                                                     *)
(***************************************************************************)
ReasonerEnvelopes ==
  { Envelope("t", PyStr("chat"), [response |-> PyStr("R")]),
    Envelope("t", PyStr("chat"), [response |-> PyStr("")]),
    Envelope("g", PyStr("ghost"), [response |-> PyStr("R")]),
    Envelope("g", PyStr("ghost"), EmptyDict),
    Envelope("g", PyStr("chat"), EmptyDict),
    Envelope("n", PyNone, [response |-> PyStr("")]),
    Envelope("math", PyStr("advanced_calculator"), [expression |-> PyStr("2+2")]),
    Envelope("math", PyStr("advanced_calculator"), EmptyDict),
    Envelope("s", PyStr("intelligent_search"), [max_depth |-> PyInt(0)]) }

\* What a completion call of such a reasoner can come back with.
ReasonerCompletions ==
  { [kind |-> "raise"],
    [kind |-> "env", env |-> Envelope("c", PyStr("advanced_calculator"), EmptyDict)],
    [kind |-> "env", env |-> Envelope("c", PyStr("chat"), EmptyDict)],
    [kind |-> "env", env |-> Envelope("c", PyStr("chat"), [response |-> PyStr(" 7 ")])] }

ReasonerThink ==
  /\ pc = "think"
  /\ config.reasoner = "Reasoner"
  /\ \/ /\ \E env \in ReasonerEnvelopes : envelope' = env
        /\ pc' = "dispatch"
        /\ exc' = NoExc
     \/ /\ pc' = "except"
        /\ exc' = Exc("RuntimeError", "reasoner failed")
        /\ envelope' = NoEnvelope
  /\ UNCHANGED << config, turn, history, context, user_input, think_input, call,
                  attempt, response_str, parse_error, tool_input, outcome, log >>
  /\ UNCHANGED << memvars, regvars, searchvars, busvars, streamvars, carvars >>

(***************************************************************************)
(* ToolPromptHandler.fill_missing_fields.                                  *)
(***************************************************************************)
\* think(input=prompt, memory, tools=None) of LLMReasoner: tools.get_all_tools()
\* fails on None before any backend request; the outer handler answers
NoToolsError == "'NoneType' object has no attribute 'get_all_tools'"

\* a completion answered by the backend with a chat envelope
BackendCompletion(prompt) ==
  [kind |-> "env", env |-> Envelope("t", PyStr("chat"), [response |-> PyStr("2+2")])]

LLMCompletion(prompt) ==
  IF config.reasoner_debug /\ EmitRaises("on_thought")
  THEN [kind |-> "raise"]
  ELSE [kind |-> "env", env |-> error_fallback(prompt, NoToolsError)]

\* _fill_single_field, lines 96-112: the value for the field, None if none
FieldValue(res, field_type) ==
  IF res.kind = "raise" THEN PyNone
  ELSE IF IsStr(DictGet(res.env, "tool_name", PyNone), "chat")
       THEN LET response == DictGet(DictGet(res.env, "tool_input",
                                            PyDict(EmptyDict)).v,
                                    "response", PyStr(""))
            IN IF response.t = "str"
               THEN _parse_field_value(response.v, field_type)
               ELSE PyNone
       ELSE PyNone

\* only the required fields the input has no key for
missing_fields_absent_only(required, input) ==
  SelectSeq(required, LAMBDA f : f \notin DOMAIN input)

\* fill_missing_fields, line 58
missing_fields(required, input) ==
  SelectSeq(required, LAMBDA f : f \notin DOMAIN input \/ ~Truthy(input[f]))

RECURSIVE FillLoop(_, _, _, _, _, _)
\* fill_missing_fields, lines 67-76; answers[i] is what the reasoner of
\* another class answers to the i-th completion call
FillLoop(tool, missing, i, acc, request, answers) ==
  IF i > Len(missing) THEN acc
  ELSE LET field == missing[i]
           schema == example_schema(tool)
           properties == IF "properties" \in DOMAIN schema
                         THEN schema.properties ELSE EmptyDict
           field_type == IF field \in DOMAIN properties
                         THEN properties[field].type ELSE "string"
           prompt == _build_field_prompt(tool, field, field_type,
                                         field \o " field", request,
                                         acc.filled, "")
           res == IF config.reasoner = "LLMReasoner"
                  THEN LLMCompletion(prompt) ELSE answers[i]
           filled_value == FieldValue(res, field_type)
           calls == << ThinkOp(field, res) >>
                    \o When(config.reasoner = "LLMReasoner"
                              /\ config.reasoner_debug,
                            << EmitCaughtOp("on_thought",
                                            error_fallback(prompt, NoToolsError)) >>)
       IN FillLoop(tool, missing, i + 1,
                   [filled |-> IF filled_value.t # "NoneType"
                               THEN DictSet(acc.filled, field, filled_value)
                               ELSE acc.filled,
                    ops |-> acc.ops \o calls],
                   request, answers)

\* fill_missing_fields -> the filled input and the calls it made
fill_missing_fields(tool, input, request, answers) ==
  LET schema == example_schema(tool)
      required == IF "required" \in DOMAIN schema THEN schema.required ELSE << >>
      missing == missing_fields(required, input)
  IN FillLoop(tool, missing, 1, [filled |-> input, ops |-> << >>],
              request, answers)

(***************************************************************************)
(* Tool bodies: the string run() returns.                                  *)
(***************************************************************************)
ToolOutputs(tool, input) ==
  CASE tool = "chat" -> { PyToStr(DictGet(input, "response", PyStr("I'm here."))) }
    [] tool = "advanced_calculator" ->
         LET expression == Strip(PyToStr(DictGet(input, "expression", PyStr(""))))
         IN IF expression = "" THEN { "[ERROR] No expression provided." }
            ELSE IF expression = "2+2" THEN { "Result: 4" }
            ELSE { "[ERROR] Invalid expression: SympifyError" }
    [] tool = "intelligent_search" ->
         LET query == Strip(PyToStr(DictGet(input, "query", PyStr(""))))
         IN IF query = "" THEN { "[ERROR] No search query provided." }
            ELSE { "[Search] No URLs found for query: " \o query,
                   "Search Results for: " \o query \o "\n\nFound 1 relevant sources:\n\n" }
    [] OTHER -> { "{\"success\": false}" }

(***************************************************************************)
(* AgentKernel.run.                                                        *)
(***************************************************************************)
\* run, line 84
tool_name == DictGet(envelope, "tool_name", PyNone)
\* run, line 85
envelope_input == DictGet(envelope, "tool_input", PyDict(EmptyDict)).v

\* run, lines 81-88: the events emitted once think has returned
ThoughtEvents ==
  When(~config.debug_mode, << EmitOp("on_thought", envelope) >>)
  \o When(config.debug_mode,
          << EmitOp("on_tool_selected",
                    [tool_name |-> tool_name, tool_input |-> envelope_input]) >>)

UsedEventAlways(name, input, output) ==
  EmitOp("on_tool_used", [tool |-> name, input |-> input, output |-> output])

\* run, lines 98-105, 131-138, 180-187
UsedEvent(name, input, output) ==
  IF config.debug_mode
  THEN EmitOp("on_tool_output", [tool_name |-> name, output |-> output])
  ELSE EmitOp("on_tool_used", [tool |-> name, input |-> input, output |-> output])

_save_conversation_twice(user_in, agent_output) ==
  << SaveOp("agent", agent_output.v, [type |-> "chat_response"]),
     SaveOp("agent", agent_output.v, [type |-> "chat_response"]) >>

\* _save_conversation_with_learning: the calls it makes
_save_conversation_with_learning(user_in, agent_output) ==
  IF agent_output.t = "str"
  THEN LET learned == extract_learnable_info(user_in)
       IN << SaveOp("agent", agent_output.v,
                    [type |-> "chat_response",
                     response_length |-> Len(agent_output.v)]) >>
          \o [i \in 1..Len(learned) |->
                ContextOp("learned_" \o learned[i], PyStr(user_in),
                          "learned_facts")]
  ELSE << RaiseOp("TypeError",
                  "object of type '" \o agent_output.t \o "' has no len()") >>

ToolResultMetadata == [type |-> "tool_result", error_type |-> "tool_not_found"]

\* run, line 143: the metadata of the not-found error entry
NotFoundMetadata == [type |-> "error", error_type |-> "tool_not_found"]

ValidationPassedMetadata(name) ==
  [type |-> "tool_result", tool_name |-> name, success |-> TRUE]

\* run, lines 167-171: the metadata of the validation error entry
ValidationFailedMetadata(name) ==
  [type |-> "error", error_type |-> "validation_failed", tool |-> name]

\* run, line 91
IsChatReply == IsStr(tool_name, "chat") /\ "response" \in DOMAIN envelope_input

\* the input handed to think as it is
_prepare_raw_prompt(input, hist, ctx) == input

\* _prepare_reasoning_prompt.  With a memory that has no
\* get_conversation_context (VectorMemory) the prompt is the input while
\* nothing was recalled; a turn with that memory never gets this far, the
\* save of the input raises first.
_prepare_reasoning_prompt(input, hist, ctx) ==
  IF config.memory = "EnhancedBufferMemory"
  THEN inject_memory_context(input, hist, ctx, ContextLimit)
  ELSE input

\* The turn ends: back to awaiting input, or into the turn boundary.
TurnEnd(st, reached) ==
  /\ Commit(st)
  /\ IF st.exc = NoExc
     THEN pc' = "await_input" /\ outcome' = reached /\ exc' = NoExc
     ELSE pc' = "except" /\ outcome' = outcome /\ exc' = st.exc

\* An input requested while the previous one is still being handled.
AtAnyPoint == pc \in {"await_input", "think", "dispatch"}

\* run, lines 58-60: `while True:` reaches `await self.interface.input()`
\* only at the head of an iteration, in the one task that runs the loop
AtLoopHead == pc = "await_input"

\* run, lines 60-70: acquire the input, emit on_input, save it, build the
\* prompt; `inputs` bounds the number of inputs of the explored session
Acquire(u, inputs) ==
  /\ AtLoopHead
  /\ turn < inputs
  /\ turn' = turn + 1
  /\ user_input' = u
  /\ LET st == Exec(<< EmitOp("on_input", [input |-> u]),
                       SaveOp("user", u,
                              [input_length |-> Len(u),
                               tool_context |-> "conversation_start"]) >>,
                    1, [Start(FALSE) EXCEPT !.log = << >>])
     IN /\ Commit(st)
        /\ IF st.exc = NoExc
           THEN /\ pc' = "think"
                /\ think_input' = _prepare_reasoning_prompt(u, st.history, st.context)
                /\ exc' = NoExc
           ELSE /\ pc' = "except"
                /\ think_input' = ""
                /\ exc' = st.exc
  /\ call' = "" /\ attempt' = 0 /\ response_str' = "" /\ parse_error' = ""
  /\ envelope' = NoEnvelope /\ tool_input' = EmptyDict /\ outcome' = "none"
  /\ UNCHANGED config
  /\ UNCHANGED << memvars, regvars, searchvars, busvars, streamvars, carvars >>

Input(u) == Acquire(u, MaxTurns)

\* interface.input raises KeyboardInterrupt (exit command, EOF): not an
\* Exception, so it leaves run
EndOfSession ==
  /\ pc = "await_input"
  /\ pc' = "stopped"
  /\ UNCHANGED << config, turn, history, context, user_input, think_input, call,
                  attempt, response_str, parse_error, envelope, tool_input, exc,
                  outcome, log >>
  /\ UNCHANGED << memvars, regvars, searchvars, busvars, streamvars, carvars >>

\* run, lines 90-106: the chat reply
ChatReply(out_fails) ==
  /\ pc = "dispatch"
  /\ IsChatReply
  /\ LET output == envelope_input["response"]
         ops == ThoughtEvents
                \o << OutputOp(output) >>
                \o _save_conversation_with_learning(user_input, output)
                \o << UsedEvent("chat", envelope_input, output) >>
     IN TurnEnd(Exec(ops, 1, Start(out_fails)), "chat")
  /\ UNCHANGED << config, turn, user_input, think_input, call, attempt,
                  response_str, parse_error, envelope, tool_input >>
  /\ UNCHANGED << memvars, regvars, searchvars, busvars, streamvars, carvars >>

\* run, lines 109-139: the tool is not registered, the envelope carries a response
FallbackChat(out_fails) ==
  /\ pc = "dispatch"
  /\ ~IsChatReply
  /\ get_tool_by_name(config.tools, tool_name) = ""
  /\ Truthy(DictGet(envelope_input, "response", PyNone))
  /\ LET output == "[Fallback Chat] Tool '" \o PyToStr(tool_name)
                   \o "' not found. Chatting instead:\n"
                   \o PyToStr(envelope_input["response"])
         ops == ThoughtEvents
                \o << OutputOp(PyStr(output)),
                      SaveOp("agent", output,
                             [type |-> "fallback", requested_tool |-> tool_name,
                              reason |-> "tool_not_found"]),
                      ContextOp("failed_tool_" \o PyToStr(tool_name),
                                PyDict([user_request |-> PyStr(user_input),
                                        fallback_used |-> PyBool(TRUE)]),
                                "tool_usage"),
                      UsedEvent("chat_fallback", envelope_input, PyStr(output)) >>
     IN TurnEnd(Exec(ops, 1, Start(out_fails)), "fallback")
  /\ UNCHANGED << config, turn, user_input, think_input, call, attempt,
                  response_str, parse_error, envelope, tool_input >>
  /\ UNCHANGED << memvars, regvars, searchvars, busvars, streamvars, carvars >>

\* run, lines 140-146: the tool is not registered and there is no response
ToolNotFound(out_fails) ==
  /\ pc = "dispatch"
  /\ ~IsChatReply
  /\ get_tool_by_name(config.tools, tool_name) = ""
  /\ ~Truthy(DictGet(envelope_input, "response", PyNone))
  /\ LET error_msg == "[ERROR] Tool '" \o PyToStr(tool_name)
                      \o "' not found or undefined."
         ops == ThoughtEvents
                \o << OutputOp(PyStr(error_msg)),
                      SaveOp("agent", error_msg, NotFoundMetadata) >>
                \o When(config.debug_mode,
                        << EmitOp("on_tool_output",
                                  [tool_name |-> "error_tool_not_found",
                                   output |-> PyStr(error_msg)]) >>)
     IN TurnEnd(Exec(ops, 1, Start(out_fails)), "not_found")
  /\ UNCHANGED << config, turn, user_input, think_input, call, attempt,
                  response_str, parse_error, envelope, tool_input >>
  /\ UNCHANGED << memvars, regvars, searchvars, busvars, streamvars, carvars >>

\* What the completion calls of another reasoner class answer, one per
\* missing field
AnswerSeqs ==
  LET tool == get_tool_by_name(config.tools, tool_name)
  IN IF config.reasoner = "LLMReasoner" \/ pc # "dispatch" \/ tool = ""
     THEN { << >> }
     ELSE [1..Len(ExampleKeys(tool)) -> ReasonerCompletions]

\* run, lines 149-172: fill the missing required fields, validate the input
FillAndValidate(out_fails, answers) ==
  /\ pc = "dispatch"
  /\ ~IsChatReply
  /\ get_tool_by_name(config.tools, tool_name) # ""
  /\ LET tool == get_tool_by_name(config.tools, tool_name)
         fill == fill_missing_fields(tool, envelope_input, user_input, answers)
         valid == validate_input(config.tools, tool_name, fill.filled)
         error_output == "[ERROR] Invalid tool input: " \o valid.msg
         ops == ThoughtEvents
                \o fill.ops
                \o When(fill.filled # envelope_input,
                        << EmitOp("on_fields_auto_filled",
                                  [tool |-> tool_name,
                                   original_input |-> envelope_input,
                                   filled_input |-> fill.filled]) >>)
                \o << ValidateOp(tool_name, fill.filled, valid) >>
                \o When(~valid.ok,
                        << OutputOp(PyStr(error_output)),
                           SaveOp("agent", error_output,
                                  ValidationFailedMetadata(tool_name)) >>)
         st == Exec(ops, 1, Start(out_fails))
     IN IF st.exc = NoExc /\ valid.ok
        THEN /\ Commit(st)
             /\ pc' = "run_tool"
             /\ tool_input' = fill.filled
             /\ UNCHANGED << exc, outcome >>
        ELSE /\ TurnEnd(st, "invalid")
             /\ UNCHANGED tool_input
  /\ UNCHANGED << config, turn, user_input, think_input, call, attempt,
                  response_str, parse_error, envelope >>
  /\ UNCHANGED << memvars, regvars, searchvars, busvars, streamvars, carvars >>

\* the calls made with the tool, the result never shown
ToolResultOpsNoOutput(tool, tool_output) ==
  << RunOp(tool, tool_input, tool_output),
     UsedEvent(PyToStr(tool_name), tool_input, PyStr(tool_output)),
     SaveOp("agent", tool_output,
            [type |-> "tool_result", tool_name |-> tool_name,
             tool_input |-> tool_input, success |-> TRUE]),
     EmitOp("on_output", [output |-> tool_output]) >>

ToolResultOpsEmitFirst(tool, tool_output) ==
  << RunOp(tool, tool_input, tool_output),
     EmitOp("on_output", [output |-> tool_output]),
     OutputOp(PyStr(tool_output)),
     SaveOp("agent", tool_output,
            [type |-> "tool_result", tool_name |-> tool_name,
             tool_input |-> tool_input, success |-> TRUE]),
     ContextOp("successful_tool_" \o PyToStr(tool_name), PyDict(EmptyDict),
               "tool_usage") >>

\* run, lines 175-210: the calls made with the tool, in order
ToolResultOps(tool, tool_output) ==
  << RunOp(tool, tool_input, tool_output),
     UsedEvent(PyToStr(tool_name), tool_input, PyStr(tool_output)),
     SaveOp("agent", tool_output,
            [type |-> "tool_result", tool_name |-> tool_name,
             tool_input |-> tool_input, success |-> TRUE]),
     ContextOp("successful_tool_" \o PyToStr(tool_name),
               PyDict([user_request |-> PyStr(user_input),
                       tool_input |-> PyDict(tool_input),
                       output_length |-> PyInt(Len(tool_output))]),
               "tool_usage"),
     OutputOp(PyStr(tool_output)),
     EmitOp("on_output", [output |-> tool_output]) >>

\* run, lines 175-210: run the tool, record and deliver its output
RunTool(out_fails) ==
  /\ pc = "run_tool"
  /\ LET tool == get_tool_by_name(config.tools, tool_name)
     IN \E tool_output \in ToolOutputs(tool, tool_input) :
          TurnEnd(Exec(ToolResultOps(tool, tool_output), 1, Start(out_fails)),
                  "tool")
  /\ UNCHANGED << config, turn, user_input, think_input, call, attempt,
                  response_str, parse_error, envelope, tool_input >>
  /\ UNCHANGED << memvars, regvars, searchvars, busvars, streamvars, carvars >>

\* traceback.format_exc()
format_exc(e) ==
  "Traceback (most recent call last):\n" \o e.type \o ": " \o e.msg \o "\n"

\* run, lines 212-222: the turn boundary.  An exception raised inside the
\* handler is not caught by anything and leaves run.
TurnBoundary(out_fails) ==
  /\ pc = "except"
  /\ LET error_msg == "[ERROR] Agent crashed: " \o exc.msg \o "\n" \o format_exc(exc)
         ops == << OutputOp(PyStr(error_msg)),
                   SaveOp("system", error_msg,
                          [type |-> "system_error", exception_type |-> exc.type]),
                   EmitOp("on_error", [error |-> error_msg]) >>
         st == Exec(ops, 1, Start(out_fails))
     IN /\ Commit(st)
        /\ IF st.exc = NoExc
           THEN pc' = "await_input" /\ outcome' = "error" /\ exc' = NoExc
           ELSE pc' = "crashed" /\ outcome' = outcome /\ exc' = st.exc
  /\ UNCHANGED << config, turn, user_input, think_input, call, attempt,
                  response_str, parse_error, envelope, tool_input >>
  /\ UNCHANGED << memvars, regvars, searchvars, busvars, streamvars, carvars >>

(***************************************************************************)
(* The state machine.                                                      *)
(***************************************************************************)
\* IntelligentSearchTool.__init__, lines 18-37: nothing scraped, no run
InitSearchIdle ==
  /\ search_pc = "idle"
  /\ tasks = << >>
  /\ urls = << >>
  /\ iteration = 0
  /\ scraped_urls = {}
  /\ collected_data = << >>
  /\ result = ""

\* EventBus.__init__, lines 8-9
InitBusIdle == _subscribers = [n \in {} |-> << >>]

InitStreamIdle ==
  /\ stream_pc = "idle"
  /\ body = << >>
  /\ chunks = << >>
  /\ chunk_i = 0
  /\ full_text = ""
  /\ line_buffer = ""
  /\ forwarded = << >>
  /\ token_callback = FALSE

\* ESP32RCCarTool.__init__, lines 31-38: no run yet
NoRequest == [method |-> ""]
InitCarIdle ==
  /\ car_pc = "idle"
  /\ car_request = NoRequest
  /\ car_result = ""

Init ==
  /\ InitSearchIdle
  /\ InitBusIdle
  /\ InitStreamIdle
  /\ InitCarIdle
  /\ config \in Configs
  /\ pc = "await_input"
  /\ turn = 0
  /\ history = << >>
  /\ context = << >>
  /\ user_input = ""
  /\ think_input = ""
  /\ call = ""
  /\ attempt = 0
  /\ response_str = ""
  /\ parse_error = ""
  /\ envelope = NoEnvelope
  /\ tool_input = EmptyDict
  /\ exc = NoExc
  /\ outcome = "none"
  /\ log = << >>
  /\ limit = MemoryLimit
  /\ persist_file = NoFile
  /\ clock = 0
  /\ session_id = strftime(0)
  /\ saved = << >>
  /\ _tools = [n \in config.tools |-> ToolOf(n)]
  /\ event_bus = FALSE

Next ==
  \/ \E u \in UserInputs : Input(u)
  \/ EndOfSession
  \/ ThinkStart
  \/ LLMFail
  \/ \E text \in BackendTexts : LLMInitialOk(text)
  \/ \E text \in ReaskTexts : LLMReaskOk(text)
  \/ ReasonerThink
  \/ \E out_fails \in OutFails : ChatReply(out_fails)
  \/ \E out_fails \in OutFails : FallbackChat(out_fails)
  \/ \E out_fails \in OutFails : ToolNotFound(out_fails)
  \/ \E out_fails \in OutFails, answers \in AnswerSeqs :
       FillAndValidate(out_fails, answers)
  \/ \E out_fails \in OutFails : RunTool(out_fails)
  \/ \E out_fails \in OutFails : TurnBoundary(out_fails)

Spec == Init /\ [][Next]_vars

(***************************************************************************)
(* The same loop followed over one more input, for the kernel as runner.py *)
(* builds it and for the kernel with another reasoner class.               *)
(***************************************************************************)
SessionConfigs ==
  { Config("EnhancedBufferMemory", "LLMReasoner", FALSE, FALSE, FullRegistry, {}),
    Config("EnhancedBufferMemory", "Reasoner", FALSE, FALSE,
           {"advanced_calculator", "intelligent_search"}, {}) }

InitSession == Init /\ config \in SessionConfigs

NextInput(u) == Acquire(u, MaxTurns + 1)

NextSession ==
  \/ \E u \in UserInputs : NextInput(u)
  \/ EndOfSession
  \/ ThinkStart
  \/ LLMFail
  \/ \E text \in BackendTexts : LLMInitialOk(text)
  \/ \E text \in ReaskTexts : LLMReaskOk(text)
  \/ ReasonerThink
  \/ \E out_fails \in OutFails : ChatReply(out_fails)
  \/ \E out_fails \in OutFails : FallbackChat(out_fails)
  \/ \E out_fails \in OutFails : ToolNotFound(out_fails)
  \/ \E out_fails \in OutFails, answers \in AnswerSeqs :
       FillAndValidate(out_fails, answers)
  \/ \E out_fails \in OutFails : RunTool(out_fails)
  \/ \E out_fails \in OutFails : TurnBoundary(out_fails)

SpecSession == InitSession /\ [][NextSession]_vars

(***************************************************************************)
(* One EnhancedBufferMemory store and its file, call by call: save,        *)
(* save_context, clear_session, and the construction of a new instance on  *)
(* the same file.  The kernel stands at the head of its loop throughout.   *)
(***************************************************************************)
kernelvars == << config, pc, turn, user_input, think_input, call, attempt, response_str, parse_error, envelope, tool_input, outcome >>

\* what callers pass to save(role, content, metadata=None)
SavedEntries ==
  { [role |-> "user", content |-> "What is 2+2?", metadata |-> PyNone],
    [role |-> "agent", content |-> "4",
     metadata |-> PyDict([type |-> PyStr("tool_result"),
                          tool_name |-> PyStr("advanced_calculator"),
                          tool_input |-> PyDict([expression |-> PyStr("2+2")]),
                          success |-> PyBool(TRUE)])],
    [role |-> "agent", content |-> "Hello Al",
     metadata |-> PyDict([type |-> PyStr("chat_response"),
                          response_length |-> PyInt(8)])] }

\* what callers pass to save_context(key, value, category)
SavedFacts ==
  { [key |-> "learned_user_fact", value |-> PyStr("I am Al"), category |-> "learned_facts"],
    [key |-> "successful_tool_advanced_calculator", category |-> "tool_usage",
     value |-> PyDict([user_request |-> PyStr("What is 2+2?"), output_length |-> PyInt(1)])],
    [key |-> "learned_user_fact", value |-> PyStr("I am Bo"), category |-> "learned_facts"],
    [key |-> "learned_user_fact", value |-> PyStr("What is 2+2?"), category |-> "tool_usage"] }

\* the history an earlier run left in the file
PriorEntries(k) ==
  [i \in 1..k |-> StampedEntry("P" \o NatToStr(i), "S", "user", "earlier " \o NatToStr(i), PyNone)]

\* the file a store is constructed on: none, one that does not parse, or
\* one written by an earlier run, which may have had a larger limit
InitialFiles ==
  {NoFile, BrokenFile} \cup {JsonFile(PriorEntries(k), << >>, 0) : k \in 0..(MemoryLimit + 1)}

\* __init__, lines 11-19
InitMemory ==
  /\ InitSearchIdle
  /\ InitBusIdle
  /\ InitStreamIdle
  /\ InitCarIdle
  /\ config = Config("EnhancedBufferMemory", "LLMReasoner", FALSE, FALSE, FullRegistry, {})
  /\ pc = "await_input"
  /\ turn = 0
  /\ user_input = ""
  /\ think_input = ""
  /\ call = ""
  /\ attempt = 0
  /\ response_str = ""
  /\ parse_error = ""
  /\ envelope = NoEnvelope
  /\ tool_input = EmptyDict
  /\ outcome = "none"
  /\ exc = NoExc
  /\ limit \in 0..MemoryLimit
  /\ persist_file \in InitialFiles
  /\ clock = 0
  /\ session_id = strftime(0)
  /\ history = _load_persistent_memory(persist_file).history
  /\ context = _load_persistent_memory(persist_file).context
  /\ log = _load_persistent_memory(persist_file).printed
  /\ saved = history
  /\ _tools = [n \in config.tools |-> ToolOf(n)]
  /\ event_bus = FALSE

\* save(role, content, metadata), lines 21-39
Save(e, w) ==
  /\ clock < MaxCalls
  /\ LET entry == StampedEntry(isoformat(clock + 1), session_id, e.role, e.content, e.metadata)
         hist == save(history, entry, limit)
         written == _persist_memory(persist_file, hist, context, clock + 1, w)
     IN /\ history' = hist
        /\ saved' = Append(saved, entry)
        /\ persist_file' = written.file
        /\ exc' = written.exc
        /\ log' = written.printed
  /\ clock' = clock + 1
  /\ UNCHANGED << kernelvars, searchvars, busvars, streamvars, carvars, regvars, context, limit, session_id >>

\* save_context(key, value, category), lines 41-51
SaveContext(f, w) ==
  /\ clock < MaxCalls
  /\ LET ctx == save_context(context, f.key, f.value, f.category)
         written == _persist_memory(persist_file, history, ctx, clock + 1, w)
     IN /\ context' = ctx
        /\ persist_file' = written.file
        /\ exc' = written.exc
        /\ log' = << CallOp("save_context", f) >> \o written.printed
  /\ clock' = clock + 1
  /\ UNCHANGED << kernelvars, searchvars, busvars, streamvars, carvars, regvars, history, limit, session_id, saved >>

\* a clear_session that would also write the emptied store to the file
ClearSessionPersisting ==
  /\ clock < MaxCalls
  /\ history' = << >>
  /\ saved' = << >>
  /\ session_id' = strftime(clock + 1)
  /\ clock' = clock + 1
  /\ exc' = NoExc
  /\ log' = << >>
  /\ persist_file' = JsonFile(<< >>, context, clock + 1)
  /\ UNCHANGED << kernelvars, searchvars, busvars, streamvars, carvars, regvars, context, limit >>

\* clear_session, lines 142-145
ClearSession ==
  /\ clock < MaxCalls
  /\ history' = << >>
  /\ saved' = << >>
  /\ session_id' = strftime(clock + 1)
  /\ clock' = clock + 1
  /\ exc' = NoExc
  /\ log' = << >>
  /\ UNCHANGED << kernelvars, searchvars, busvars, streamvars, carvars, regvars, context, limit, persist_file >>

\* a new instance on the same file: __init__, lines 11-19
Reopen ==
  /\ clock < MaxCalls
  /\ LET loaded == _load_persistent_memory(persist_file)
     IN /\ history' = loaded.history
        /\ context' = loaded.context
        /\ saved' = loaded.history
        /\ log' = loaded.printed
  /\ session_id' = strftime(clock + 1)
  /\ clock' = clock + 1
  /\ exc' = NoExc
  /\ UNCHANGED << kernelvars, searchvars, busvars, streamvars, carvars, regvars, limit, persist_file >>

NextMemory ==
  \/ \E e \in SavedEntries, w \in WriteOutcomes : Save(e, w)
  \/ \E f \in SavedFacts, w \in WriteOutcomes : SaveContext(f, w)
  \/ ClearSession
  \/ Reopen

SpecMemory == InitMemory /\ [][NextMemory]_vars

(***************************************************************************)
(* One ToolManager, call by call: register_tool, the loader's guarded      *)
(* registration, unregister_tool, and validate_input of a registered       *)
(* tool's own parsed example.                                              *)
(***************************************************************************)
\* the tool objects offered for registration: well-formed ones with every
\* example, and ones whose name or description is absent or empty
GoodNames == {"probe", "advanced_calculator"}
GoodDescription == PyStr("Solves complex math expressions")
ToolExamples ==
  << Absent, PyStr(""), PyStr(ExampleUsage("advanced_calculator")) >>
  \o [i \in DOMAIN ExampleValues |-> PyStr(ExampleText(i))]
  \o << PyStr(ExampleUsage("esp32_rc_car")) >>

ToolObjects ==
  { ToolObject(PyStr(n), GoodDescription, ToolExamples[e]) :
      n \in GoodNames, e \in DOMAIN ToolExamples }
  \cup { ToolObject(Absent, GoodDescription, ToolExamples[4]),
         ToolObject(PyStr(""), GoodDescription, ToolExamples[4]),
         ToolObject(PyStr("probe"), Absent, ToolExamples[4]),
         ToolObject(PyStr("probe"), PyStr(""), ToolExamples[4]) }

\* ToolManager.__init__(event_bus=None), lines 11-13
InitRegistry ==
  /\ InitSearchIdle
  /\ InitBusIdle
  /\ InitStreamIdle
  /\ InitCarIdle
  /\ config = Config("EnhancedBufferMemory", "LLMReasoner", FALSE, FALSE, {}, {})
  /\ pc = "await_input"
  /\ turn = 0
  /\ user_input = ""
  /\ think_input = ""
  /\ call = ""
  /\ attempt = 0
  /\ response_str = ""
  /\ parse_error = ""
  /\ envelope = NoEnvelope
  /\ tool_input = EmptyDict
  /\ outcome = "none"
  /\ exc = NoExc
  /\ history = << >>
  /\ context = << >>
  /\ log = << >>
  /\ limit = MemoryLimit
  /\ persist_file = NoFile
  /\ clock = 0
  /\ session_id = strftime(0)
  /\ saved = << >>
  /\ _tools = [n \in {} |-> Absent]
  /\ event_bus \in BOOLEAN

\* tool_manager.register_tool(tool)
RegisterTool(tool) ==
  /\ LET r == register_tool(_tools, tool, event_bus)
     IN /\ _tools' = r.reg
        /\ exc' = r.exc
  /\ log' = << CallOp("register_tool", tool) >>
  /\ UNCHANGED << kernelvars, searchvars, busvars, streamvars, carvars, memvars, history, context, event_bus >>

\* load_tools_dynamically meets the class of the tool object
LoadTool(tool) ==
  /\ ~event_bus
  /\ LET r == load_tool(_tools, tool)
     IN /\ _tools' = r.reg
        /\ exc' = r.exc
  /\ log' = << CallOp("load_tool", tool) >>
  /\ UNCHANGED << kernelvars, searchvars, busvars, streamvars, carvars, memvars, history, context, event_bus >>

\* tool_manager.unregister_tool(name); its event data reads no attribute
UnregisterTool(name) ==
  /\ name \in DOMAIN _tools
  /\ _tools' = unregister_tool(_tools, name)
  /\ exc' = NoExc
  /\ log' = << CallOp("unregister_tool", name) >>
  /\ UNCHANGED << kernelvars, searchvars, busvars, streamvars, carvars, memvars, history, context, event_bus >>

\* tool_manager.validate_input(name, example) for the parsed example of the
\* tool registered under the name
ValidateOwnExample(name) ==
  /\ name \in DOMAIN _tools
  /\ ParseExample(_tools[name].example_usage).ok
  /\ LET example == ParseExample(_tools[name].example_usage).value
     IN log' = << ValidateOp(name, example, validate_registered(_tools, name, example)) >>
  /\ exc' = NoExc
  /\ UNCHANGED << kernelvars, searchvars, busvars, streamvars, carvars, memvars, history, context, regvars >>

\* the inputs validate_input is called with: no key, the key of the examples
\* with a value of every kind, another key, and a key named "type"
ProbeInputs ==
  { EmptyDict, [expression |-> PyStr("2+2")], [type |-> PyInt(5)],
    [query |-> PyStr("best"), type |-> PyStr("fast")] }
  \cup { [query |-> ExampleValues[i]] : i \in DOMAIN ExampleValues }

\* tool_manager.validate_input(name, input_data), lines 50-92
ValidateInput(name, input_data) ==
  /\ log' = << ValidateOp(name, input_data, validate_registered(_tools, name, input_data)) >>
  /\ exc' = NoExc
  /\ UNCHANGED << kernelvars, searchvars, busvars, streamvars, carvars, memvars, history, context, regvars >>

(***************************************************************************)
(* LLMReasoner._call_llm_stream, chunk by chunk.  The backend sends its    *)
(* fragments one per line; response.iter_text() hands the body over in     *)
(* text chunks whose ends the transport decides: at the end of a line,     *)
(* before its newline, or inside it.                                       *)
(***************************************************************************)
RECURSIVE Wire(_)
\* the body on the wire: every fragment followed by a newline
Wire(frags) ==
  IF frags = << >> THEN "" ELSE Head(frags) \o "\n" \o Wire(Tail(frags))

RECURSIVE CutCandidates(_, _)
\* where a chunk can end: inside a fragment, before and after its newline
CutCandidates(frags, offset) ==
  IF frags = << >> THEN {}
  ELSE LET n == Len(Head(frags)) IN
       {offset + 5, offset + n, offset + n + 1}
         \cup CutCandidates(Tail(frags), offset + n + 1)

RECURSIVE SplitAt(_, _, _)
\* the chunks of text that end at the positions cuts, after position from
SplitAt(text, cuts, from) ==
  IF from >= Len(text) THEN << >>
  ELSE LET later == { c \in cuts : c > from /\ c < Len(text) } IN
       IF later = {} THEN << SubSeq(text, from + 1, Len(text)) >>
       ELSE LET c == CHOOSE x \in later : \A y \in later : x <= y
            IN << SubSeq(text, from + 1, c) >> \o SplitAt(text, cuts, c)

\* position of the first newline of s, 0 if it has none
NewlineAt(s) ==
  IF \E i \in 1..Len(s) : SubSeq(s, i, i) = "\n"
  THEN CHOOSE i \in 1..Len(s) :
         SubSeq(s, i, i) = "\n" /\ \A j \in 1..(i - 1) : SubSeq(s, j, j) # "\n"
  ELSE 0

RECURSIVE CompletedLines(_)
\* lines 216-219: the lines split off the buffer, each with its newline
CompletedLines(buffer) ==
  IF NewlineAt(buffer) = 0 THEN << >>
  ELSE << SubSeq(buffer, 1, NewlineAt(buffer)) >>
       \o CompletedLines(SubSeq(buffer, NewlineAt(buffer) + 1, Len(buffer)))

RECURSIVE PartialLine(_)
\* lines 216-217: what stays in the buffer
PartialLine(buffer) ==
  IF NewlineAt(buffer) = 0 THEN buffer
  ELSE PartialLine(SubSeq(buffer, NewlineAt(buffer) + 1, Len(buffer)))

\* lines 211-213 on one chunk: the token, or the exception the except clause
\* of line 220 catches
TokenOf(chunk) ==
  LET data == json_loads(Strip(chunk)) IN
  IF data.t = "JSONDecodeError" THEN data
  ELSE IF data.t # "dict" THEN [t |-> "AttributeError", v |-> "get"]
  ELSE LET token == DictGet(data.v, "response", PyStr("")) IN
       IF token.t = "str" THEN token ELSE [t |-> "TypeError", v |-> "concatenate"]

HttpStatuses == { 200, 500 }

\* lines 197-206: the request is answered; _try_call_llm calls again after an
\* attempt that raised
StreamOpen(status, frags, cuts, callback) ==
  /\ stream_pc \in {"idle", "raised"}
  /\ token_callback' = callback
  /\ chunk_i' = 0
  /\ full_text' = ""
  /\ line_buffer' = ""
  /\ forwarded' = << >>
  /\ IF status # 200
     THEN /\ stream_pc' = "raised"
          /\ body' = << >>
          /\ chunks' = << >>
          /\ exc' = Exc("RuntimeError", "LLM returned HTTP " \o NatToStr(status))
     ELSE /\ stream_pc' = "reading"
          /\ body' = frags
          /\ chunks' = SplitAt(Wire(frags), cuts, 0)
          /\ exc' = NoExc
  /\ UNCHANGED << kernelvars, searchvars, busvars, carvars, memvars, history, context, regvars, log >>

\* lines 207-221: one round of the loop over response.iter_text()
StreamChunk ==
  /\ stream_pc = "reading"
  /\ chunk_i < Len(chunks)
  /\ chunk_i' = chunk_i + 1
  /\ LET chunk == chunks[chunk_i + 1]
         token == TokenOf(chunk)
     IN IF Strip(chunk) = "" \/ token.t # "str"
        THEN UNCHANGED << full_text, line_buffer, forwarded >>
        ELSE /\ full_text' = full_text \o token.v
             /\ line_buffer' = PartialLine(line_buffer \o token.v)
             /\ forwarded' = IF token_callback
                               THEN forwarded \o CompletedLines(line_buffer \o token.v)
                               ELSE forwarded
  /\ UNCHANGED << kernelvars, searchvars, busvars, carvars, memvars, history, context, regvars, log, exc, stream_pc, body, chunks, token_callback >>

\* lines 222-225: the body is over; the partial line is flushed
StreamReturn ==
  /\ stream_pc = "reading"
  /\ chunk_i = Len(chunks)
  /\ stream_pc' = "returned"
  /\ forwarded' = IF line_buffer # "" /\ token_callback
                    THEN Append(forwarded, line_buffer) ELSE forwarded
  /\ UNCHANGED << kernelvars, searchvars, busvars, carvars, memvars, history, context, regvars, log, exc, body, chunks, chunk_i, full_text, line_buffer, token_callback >>

\* the bodies the backend sends
Bodies == UNION { [1..n -> Fragments] : n \in 0..MaxFragments }

NextStream ==
  \/ \E status \in HttpStatuses, frags \in Bodies, callback \in BOOLEAN :
       \E cuts \in SUBSET (CutCandidates(frags, 0) \ {Len(Wire(frags))}) :
          StreamOpen(status, frags, cuts, callback)
  \/ StreamChunk
  \/ StreamReturn

InitStream == InitRegistry /\ ~event_bus
SpecStream == InitStream /\ [][NextStream]_vars

(***************************************************************************)
(* EventBus (core/event_bus.py) on its own: subscribe and emit, with the   *)
(* callbacks runner.py subscribes.  With DEBUG_MEMORY set on_memory_save   *)
(* reads data.get and so raises on data that is no mapping.                *)
(***************************************************************************)
Callbacks == { "on_memory_save", "on_context_learned" }
EventNames == { "on_memory_save", "on_context_learned" }
EventData == { PyDict([role |-> PyStr("user")]), PyNone }

CallbackRaises(callback, data) == callback = "on_memory_save" /\ data.t # "dict"

\* self._subscribers[event_name] of a defaultdict(list)
SubscribersOf(subs, event_name) ==
  IF event_name \in DOMAIN subs THEN subs[event_name] ELSE << >>

\* callback(data)
DeliverOp(callback, data) == [op |-> "callback", callback |-> callback, data |-> data]

RECURSIVE DeliveriesNewestFirst(_, _)
\* the callbacks called from the last subscribed to the first
DeliveriesNewestFirst(callbacks, data) ==
  IF callbacks = << >> THEN << >>
  ELSE LET last == callbacks[Len(callbacks)] IN
       << DeliverOp(last, data) >>
         \o (IF CallbackRaises(last, data) THEN << >>
             ELSE DeliveriesNewestFirst(SubSeq(callbacks, 1, Len(callbacks) - 1), data))

RECURSIVE Deliveries(_, _)
\* emit, lines 15-16: the callbacks called, up to the first that raises
Deliveries(callbacks, data) ==
  IF callbacks = << >> THEN << >>
  ELSE << DeliverOp(Head(callbacks), data) >>
         \o (IF CallbackRaises(Head(callbacks), data) THEN << >>
             ELSE Deliveries(Tail(callbacks), data))

SubscriptionCount(subs) ==
  Cardinality(UNION { { << n, i >> : i \in 1..Len(subs[n]) } : n \in DOMAIN subs })

\* EventBus.subscribe(event_name, callback), lines 11-12
Subscribe(event_name, callback) ==
  /\ SubscriptionCount(_subscribers) < MaxSubscriptions
  /\ _subscribers' = DictSet(_subscribers, event_name,
                             Append(SubscribersOf(_subscribers, event_name), callback))
  /\ log' = << CallOp("subscribe", [event_name |-> event_name, callback |-> callback]) >>
  /\ exc' = NoExc
  /\ UNCHANGED << kernelvars, searchvars, streamvars, carvars, memvars, history, context, regvars >>

\* EventBus.emit(event_name, data), lines 14-16
Emit(event_name, data) ==
  LET callbacks == SubscribersOf(_subscribers, event_name) IN
  /\ _subscribers' = DictSet(_subscribers, event_name, callbacks)
  /\ log' = << CallOp("emit", [event_name |-> event_name, data |-> data]) >>
            \o Deliveries(callbacks, data)
  /\ exc' = IF \E i \in 1..Len(callbacks) : CallbackRaises(callbacks[i], data)
            THEN Exc("AttributeError", "'NoneType' object has no attribute 'get'")
            ELSE NoExc
  /\ UNCHANGED << kernelvars, searchvars, streamvars, carvars, memvars, history, context, regvars >>

NextBus ==
  \/ \E event_name \in EventNames, callback \in Callbacks : Subscribe(event_name, callback)
  \/ \E event_name \in EventNames, data \in EventData : Emit(event_name, data)

InitBus == InitRegistry /\ ~event_bus
SpecBus == InitBus /\ [][NextBus]_vars

\* _parse_field_value(response, field_type) called on its own
ParseOp(response, field_type, value) ==
  [op |-> "_parse_field_value", response |-> response,
   field_type |-> field_type, value |-> value]

\* the answers of the backend to a field prompt, and the JSON types a field has
ParseResponses ==
  { "true", "Yes", " ON\n", "1", "0", "false", "", "42", " -7 ", "+3", "1_000",
    "4 2", "2.5", ".5", "5.", "-0", "inf", "NaN", "abc", "[1, 2]", "[]",
    "{\"a\": 1}", "{}", "null", "\"x\"", "[1," }
FieldTypes == { "boolean", "integer", "number", "array", "object", "string", "null" }

ParseFieldValue(response, field_type) ==
  /\ log' = << ParseOp(response, field_type, _parse_field_value(response, field_type)) >>
  /\ exc' = NoExc
  /\ UNCHANGED << kernelvars, searchvars, busvars, streamvars, carvars, memvars, history, context, regvars >>

NextParse ==
  \E response \in ParseResponses, field_type \in FieldTypes :
     ParseFieldValue(response, field_type)

NextRegistry ==
  \/ \E name \in GoodNames, input_data \in ProbeInputs : ValidateInput(name, input_data)
  \/ \E tool \in ToolObjects : RegisterTool(tool)
  \/ \E tool \in ToolObjects : LoadTool(tool)
  \/ \E name \in GoodNames : UnregisterTool(name)
  \/ \E name \in GoodNames : ValidateOwnExample(name)

SpecRegistry == InitRegistry /\ [][NextRegistry]_vars

\* _parse_field_value on every answer and field type
InitParse == InitRegistry /\ ~event_bus
SpecParse == InitParse /\ [][NextParse]_vars

(***************************************************************************)
(* IntelligentSearchTool.run, from one await to the next: the engine       *)
(* requests and the page scrapes are coroutines handed to asyncio.gather,  *)
(* each ending on its own (answer, HTTP or network error, or the 10 s      *)
(* timeout of its client); run goes on when the gather returns.            *)
(***************************************************************************)
\* __init__, lines 27-30 and 34-35
search_engines == << "bing", "duckduckgo" >>
max_iterations == 3
max_urls_per_iteration == 4

Url(i) == "https://site.example/" \o NatToStr(i)
ExcludedUrl == "https://www.youtube.com/watch"

\* _is_valid_url, lines 168-191, on the URLs above
_is_valid_url(url) == ~Contains(url, "youtube.com")

\* what an engine's result page can list: the first k URLs, or an excluded
\* one in front of them
EngineListings ==
  { [i \in 1..k |-> Url(i)] : k \in 0..MaxUrls } \cup { << ExcludedUrl, Url(1) >> }

\* _scrape_url, lines 240-254: the page has long or short text; it links to
\* the next URL
Page(url_index, text_len) ==
  [url |-> Url(url_index), text_len |-> text_len,
   links |-> IF url_index < MaxUrls THEN << Url(url_index + 1) >> ELSE << >>,
   relevance |-> IF text_len >= 1000 THEN 10 ELSE text_len \div 100]

\* _extract_links, lines 303-314: one entry per anchor, so a page on which
\* two anchors carry the same href lists that URL twice
RepeatedAnchor(page) == [page EXCEPT !.links = @ \o @]

Task(name) == [name |-> name, status |-> "pending", how |-> "", value |-> << >>]

Done(task, how, value) == [task EXCEPT !.status = "done", !.how = how, !.value = value]

\* a wait that is over as soon as one of the coroutines is
first_done(ts) == \E i \in 1..Len(ts) : ts[i].status = "done"

\* asyncio.gather(*tasks, return_exceptions=True), lines 98 and 211: over
\* when every coroutine is
gather_done(ts) == \A i \in 1..Len(ts) : ts[i].status = "done"

RECURSIVE Flatten(_)
Flatten(seqs) == IF Len(seqs) = 0 THEN << >> ELSE seqs[1] \o Flatten(Tail(seqs))

RECURSIVE unique_urls(_, _)
\* _search_engines_parallel, lines 106-111
unique_urls(all_urls, seen) ==
  IF Len(all_urls) = 0 THEN << >>
  ELSE IF all_urls[1] \notin seen /\ _is_valid_url(all_urls[1])
       THEN << all_urls[1] >> \o unique_urls(Tail(all_urls), seen \cup {all_urls[1]})
       ELSE unique_urls(Tail(all_urls), seen)

FirstN(seq, n) == SubSeq(seq, 1, IF Len(seq) < n THEN Len(seq) ELSE n)
Rest(seq, n) == SubSeq(seq, (IF Len(seq) < n THEN Len(seq) ELSE n) + 1, Len(seq))

RECURSIVE Sum(_, _)
Sum(data, field) == IF Len(data) = 0 THEN 0 ELSE data[1][field] + Sum(Tail(data), field)

\* _has_sufficient_info, lines 335-346
_has_sufficient_info(data) ==
  /\ Len(data) >= 2
  /\ \/ Len(data) >= 3 /\ Sum(data, "text_len") > 2000
     \/ Len(data) >= 2 /\ Sum(data, "relevance") > 5 * Len(data)

\* _extract_related_urls, lines 323-333
_extract_related_urls(data, scraped) ==
  LET recent_data == IF Len(data) > 1 THEN LastN(data, 2) ELSE data
      links == Flatten([i \in 1..Len(recent_data) |-> FirstN(recent_data[i].links, 2)])
  IN FirstN(SelectSeq(links, LAMBDA link : link \notin scraped), 5)

\* _compile_results, lines 348-376: the heading of the report
_compile_results(query, data) ==
  IF Len(data) = 0 THEN "[Search] No relevant information found for: " \o query
  ELSE "Search Results for: " \o query \o "\n\nFound " \o NatToStr(Len(data))
       \o " relevant sources:\n\n"

SearchQueries == { "tla", " " }

\* agent_kernel.run, line 176: `await tool.run(tool_input)`; run, lines
\* 39-53, and _search_engines_parallel, lines 93-98
SearchRun(query) ==
  /\ search_pc = "idle"
  /\ turn < MaxTurns + 1
  /\ turn' = turn + 1
  /\ tool_input' = [query |-> PyStr(query)]
  /\ IF Strip(query) = ""
     THEN /\ result' = "[ERROR] No search query provided."
          /\ search_pc' = "returned"
          /\ UNCHANGED << tasks, urls, iteration, scraped_urls, collected_data >>
     ELSE /\ scraped_urls' = {}
          /\ collected_data' = << >>
          /\ tasks' = [i \in 1..Len(search_engines) |-> Task(search_engines[i])]
          /\ search_pc' = "engines"
          /\ UNCHANGED << result, urls, iteration >>
  /\ UNCHANGED << config, pc, history, context, user_input, think_input, call, attempt, response_str, parse_error, envelope, exc, outcome, log >>
  /\ UNCHANGED << memvars, regvars, busvars, streamvars, carvars >>

\* _search_single_engine, lines 115-137, ends: with the URLs of the result
\* page, or with [] after an HTTP error, a network error or the timeout
EngineAnswers(i, how, listing) ==
  /\ search_pc = "engines"
  /\ i \in 1..Len(tasks)
  /\ tasks[i].status = "pending"
  /\ how = "succeeded" \/ listing = << >>
  /\ tasks' = [tasks EXCEPT ![i] = Done(@, how, listing)]
  /\ UNCHANGED << config, pc, turn, history, context, user_input, think_input, call, attempt, response_str, parse_error, envelope, tool_input, exc, outcome, log >>
  /\ UNCHANGED << memvars, regvars, busvars, streamvars, carvars, search_pc, urls, iteration, scraped_urls, collected_data, result >>

\* _search_engines_parallel, lines 98-113, and run, lines 54-60
EnginesJoined ==
  /\ search_pc = "engines"
  /\ gather_done(tasks)
  /\ LET all_urls == Flatten([i \in 1..Len(tasks) |-> tasks[i].value])
         found == FirstN(unique_urls(all_urls, {}), 15)
     IN IF found = << >>
        THEN /\ result' = "[Search] No URLs found for query: " \o Strip(tool_input.query.v)
             /\ search_pc' = "returned"
             /\ UNCHANGED << urls, iteration >>
        ELSE /\ urls' = found
             /\ iteration' = 0
             /\ search_pc' = "loop"
             /\ UNCHANGED result
  /\ UNCHANGED << config, pc, turn, history, context, user_input, think_input, call, attempt, response_str, parse_error, envelope, tool_input, exc, outcome, log >>
  /\ UNCHANGED << memvars, regvars, busvars, streamvars, carvars, tasks, scraped_urls, collected_data >>

\* run, lines 61-70 and 86, and _scrape_batch, lines 201-211; every started
\* _scrape_url puts its URL into scraped_urls before its request (line 224)
Iterate ==
  /\ search_pc = "loop"
  /\ IF iteration < max_iterations /\ urls # << >>
     THEN LET batch_urls == FirstN(urls, max_urls_per_iteration)
              fresh == SelectSeq(batch_urls, LAMBDA url : url \notin scraped_urls)
          IN /\ iteration' = iteration + 1
             /\ urls' = Rest(urls, max_urls_per_iteration)
             /\ tasks' = [i \in 1..Len(fresh) |-> Task(fresh[i])]
             /\ scraped_urls' = scraped_urls \cup { fresh[i] : i \in 1..Len(fresh) }
             /\ search_pc' = IF fresh = << >> THEN "sleep" ELSE "scraping"
             /\ UNCHANGED result
     ELSE /\ result' = _compile_results(Strip(tool_input.query.v), collected_data)
          /\ search_pc' = "returned"
          /\ UNCHANGED << iteration, urls, tasks, scraped_urls >>
  /\ UNCHANGED << config, pc, turn, history, context, user_input, think_input, call, attempt, response_str, parse_error, envelope, tool_input, exc, outcome, log >>
  /\ UNCHANGED << memvars, regvars, busvars, streamvars, carvars, collected_data >>

\* what a _scrape_url can end with: a page, or None (not HTML, text under
\* min_content_length, an HTTP error, a network error, the timeout)
ScrapeOutcomes(url_index) ==
  { [how |-> "succeeded", value |-> << Page(url_index, 3000) >>],
    [how |-> "succeeded", value |-> << Page(url_index, 300) >>],
    [how |-> "succeeded", value |-> << RepeatedAnchor(Page(url_index, 300)) >>],
    [how |-> "succeeded", value |-> << >>],
    [how |-> "failed", value |-> << >>],
    [how |-> "timed_out", value |-> << >>] }

\* _scrape_url, lines 221-262, ends
PageScraped(i, url_index, o) ==
  /\ search_pc = "scraping"
  /\ i \in 1..Len(tasks)
  /\ tasks[i].status = "pending"
  /\ tasks[i].name = Url(url_index)
  /\ tasks' = [tasks EXCEPT ![i] = Done(@, o.how, o.value)]
  /\ UNCHANGED << config, pc, turn, history, context, user_input, think_input, call, attempt, response_str, parse_error, envelope, tool_input, exc, outcome, log >>
  /\ UNCHANGED << memvars, regvars, busvars, streamvars, carvars, search_pc, urls, iteration, scraped_urls, collected_data, result >>

\* _scrape_batch, lines 211-219, and run, lines 71-86
ScrapeJoined ==
  /\ search_pc = "scraping"
  /\ gather_done(tasks)
  /\ LET scraped == Flatten([i \in 1..Len(tasks) |-> tasks[i].value])
         data == collected_data \o scraped
     IN /\ collected_data' = data
        /\ IF scraped # << >> /\ _has_sufficient_info(data)
           THEN /\ result' = _compile_results(Strip(tool_input.query.v), data)
                /\ search_pc' = "returned"
                /\ UNCHANGED urls
           ELSE /\ urls' = IF scraped # << >>
                           THEN urls \o _extract_related_urls(data, scraped_urls)
                           ELSE urls
                /\ search_pc' = "sleep"
                /\ UNCHANGED result
  /\ UNCHANGED << config, pc, turn, history, context, user_input, think_input, call, attempt, response_str, parse_error, envelope, tool_input, exc, outcome, log >>
  /\ UNCHANGED << memvars, regvars, busvars, streamvars, carvars, tasks, iteration, scraped_urls >>

\* run, line 84: `await asyncio.sleep(0.5)` is over
SleepOver ==
  /\ search_pc = "sleep"
  /\ search_pc' = "loop"
  /\ UNCHANGED << config, pc, turn, history, context, user_input, think_input, call, attempt, response_str, parse_error, envelope, tool_input, exc, outcome, log >>
  /\ UNCHANGED << memvars, regvars, busvars, streamvars, carvars, tasks, urls, iteration, scraped_urls, collected_data, result >>

\* agent_kernel.run, line 176: the await of tool.run is over, the turn goes on
ToolReturned ==
  /\ search_pc = "returned"
  /\ search_pc' = "idle"
  /\ UNCHANGED << config, pc, turn, history, context, user_input, think_input, call, attempt, response_str, parse_error, envelope, tool_input, exc, outcome, log >>
  /\ UNCHANGED << memvars, regvars, busvars, streamvars, carvars, tasks, urls, iteration, scraped_urls, collected_data, result >>

InitSearch ==
  /\ InitRegistry
  /\ ~event_bus

NextSearch ==
  \/ \E query \in SearchQueries : SearchRun(query)
  \/ \E i \in 1..Len(search_engines), how \in {"succeeded", "failed", "timed_out"}, listing \in EngineListings : EngineAnswers(i, how, listing)
  \/ EnginesJoined
  \/ Iterate
  \/ \E i \in 1..max_urls_per_iteration, u \in 1..MaxUrls : \E o \in ScrapeOutcomes(u) : PageScraped(i, u, o)
  \/ ScrapeJoined
  \/ SleepOver
  \/ ToolReturned

SpecSearch == InitSearch /\ [][NextSearch]_vars

(***************************************************************************)
(* ESP32RCCarTool.run, from the call to the one HTTP request it sends and  *)
(* from the device's answer to the return.  A piece of run ends with the   *)
(* text it returns, with the request it awaits, or with the exception it   *)
(* raises ([t |-> class, v |-> str(e)]).                                    *)
(***************************************************************************)
Returns(text) == [t |-> "return", v |-> text]
Awaits(method, url, payload, echo) == [t |-> "await", request |-> [method |-> method, url |-> url, json |-> payload, echo |-> echo]]
Raises(class, msg) == [t |-> class, v |-> msg]
IsRaise(o) == o.t \notin {"return", "await", "str", "int"}

\* x.lower()
py_lower(x) ==
  IF x.t = "str" THEN PyStr(Lower(x.v))
  ELSE Raises("AttributeError", "'" \o x.t \o "' object has no attribute 'lower'")

\* int(x)
py_int(x) ==
  CASE x.t = "int" -> x
    [] x.t = "bool" -> PyInt(IF x.v THEN 1 ELSE 0)
    [] x.t = "float" ->
         IF Lower(Unsigned(x.v)) = "nan"
         THEN Raises("ValueError", "cannot convert float NaN to integer")
         ELSE IF Lower(Unsigned(x.v)) = "inf"
         THEN Raises("OverflowError", "cannot convert float infinity to integer")
         ELSE PyInt(IntOf(IntPart(x.v)))
    [] x.t = "str" ->
         IF IsIntLiteral(Strip(x.v)) THEN PyInt(IntOf(Strip(x.v)))
         ELSE Raises("ValueError", "invalid literal for int() with base 10: " \o Repr(x))
    [] OTHER ->
         Raises("TypeError", "int() argument must be a string, a bytes-like object or a real number, not '" \o x.t \o "'")

Min(a, b) == IF a < b THEN a ELSE b

\* str(n) of an int
IntToStr(n) == IF n < 0 THEN "-" \o NatToStr(0 - n) ELSE NatToStr(n)

\* a speed sent as it was asked for
Unclamped(speed) == speed

\* line 103: max(0, min(255, speed))
Clamped(speed) == Max(0, Min(255, speed))

\* json.dumps({"success": False, "error": msg})
ErrorResult(msg) == "{\"success\": false, \"error\": \"" \o msg \o "\"}"

\* lines 106-111 and 155-159
movement_command_map == [forward |-> "F", backward |-> "B", left |-> "L", right |-> "R"]
stop_command_map == [all |-> "S", motion |-> "Q", steering |-> "T"]

\* _send_movement_command, lines 92-126, up to the request
_send_movement_command(input, base_url) ==
  LET direction == py_lower(DictGet(input, "direction", PyStr("")))
      speed == py_int(DictGet(input, "speed", PyInt(128)))
  IN IF IsRaise(direction) THEN direction
     ELSE IF direction.v \notin DOMAIN movement_command_map
     THEN Returns(ErrorResult("Invalid direction. Use: forward, backward, left, right"))
     ELSE IF IsRaise(speed) THEN speed
     ELSE LET command == movement_command_map[direction.v]
              pwm == Clamped(speed.v)
          IN Awaits("POST", base_url \o "/api/command", [command |-> command, pwm |-> pwm],
                    "\"action\": \"move\", \"direction\": \"" \o direction.v \o "\", \"speed\": "
                    \o IntToStr(pwm) \o ", \"command_sent\": \"" \o command \o "\", \"esp32_response\": ")

\* _send_stop_command, lines 150-180, up to the request
_send_stop_command(input, base_url) ==
  LET stop_type == py_lower(DictGet(input, "stop_type", PyStr("all")))
  IN IF IsRaise(stop_type) THEN stop_type
     ELSE IF stop_type.v \notin DOMAIN stop_command_map
     THEN Returns(ErrorResult("Invalid stop_type. Use: all, motion, steering"))
     ELSE LET command == stop_command_map[stop_type.v]
          IN Awaits("POST", base_url \o "/api/command", [command |-> command, pwm |-> 0],
                    "\"action\": \"stop\", \"stop_type\": \"" \o stop_type.v
                    \o "\", \"command_sent\": \"" \o command \o "\", \"esp32_response\": ")

\* gear in [1, 2, 3, 4]: True == 1 and 1.0 == 1 in Python
IsGear(gear) ==
  \/ gear.t = "int" /\ gear.v \in 1..4
  \/ gear.t = "bool" /\ gear.v
  \/ gear.t = "float" /\ gear.v \in {"1.0", "2.0", "3.0", "4.0"}

\* _send_gear_command, lines 206-228, up to the request
_send_gear_command(input, base_url) ==
  LET gear == DictGet(input, "gear", PyInt(1))
  IN IF ~IsGear(gear)
     THEN Returns(ErrorResult("Invalid gear. Use: 1, 2, 3, or 4"))
     ELSE Awaits("POST", base_url \o "/api/command", [command |-> PyToStr(gear), pwm |-> 0],
                 "\"action\": \"gear\", \"gear\": " \o (IF gear.t = "float" THEN gear.v ELSE JsonValue(gear))
                 \o ", \"command_sent\": \"" \o PyToStr(gear) \o "\", \"esp32_response\": ")

\* _send_handbrake_command, lines 253-266, up to the request
_send_handbrake_command(input, base_url) ==
  Awaits("POST", base_url \o "/api/command", [command |-> "Z", pwm |-> 0],
         "\"action\": \"handbrake\", \"command_sent\": \"Z\", \"esp32_response\": ")

\* _get_status, lines 290-296, up to the request
_get_status(base_url) ==
  Awaits("GET", base_url \o "/api/status", << >>, "\"action\": \"status\", \"esp32_status\": ")

\* run, lines 54-81, inside the try
car_run(input) ==
  LET esp32_ip == DictGet(input, "esp32_ip", PyNone)
      base_url == "http://" \o PyToStr(esp32_ip)
      action == py_lower(DictGet(input, "action", PyStr("")))
  IN IF ~Truthy(esp32_ip)
     THEN Returns(ErrorResult("esp32_ip is required. Provide the IP address of your ESP32 controller (e.g., '192.168.100.66')"))
     ELSE IF IsRaise(action) THEN action
     ELSE CASE action.v = "status" -> _get_status(base_url)
            [] action.v = "move" -> _send_movement_command(input, base_url)
            [] action.v = "stop" -> _send_stop_command(input, base_url)
            [] action.v = "gear" -> _send_gear_command(input, base_url)
            [] action.v = "handbrake" -> _send_handbrake_command(input, base_url)
            [] OTHER -> Returns("{\"success\": false, \"error\": \"Unknown action: " \o action.v
                                \o "\", \"valid_actions\": [\"move\", \"stop\", \"gear\", \"handbrake\", \"status\"]}")

\* the classes `except Exception` catches; asyncio.CancelledError is not one
ExceptionClasses == {"AttributeError", "ValueError", "TypeError", "OverflowError", "TimeoutError", "ClientConnectorError", "ContentTypeError"}

\* agent_kernel.run, line 176: `await tool.run(tool_input)`; run, lines
\* 54-88: to the first return, or to the request of the command handler
CarRun(input) ==
  /\ car_pc = "idle"
  /\ tool_input' = input
  /\ LET o == car_run(input)
     IN CASE o.t = "await" ->
               /\ car_request' = o.request
               /\ car_pc' = "awaiting"
               /\ UNCHANGED << car_result, exc >>
          [] o.t = "return" ->
               /\ car_result' = o.v
               /\ car_pc' = "returned"
               /\ car_request' = NoRequest
               /\ UNCHANGED exc
          [] o.t \in ExceptionClasses ->
               /\ car_result' = ErrorResult("Tool execution failed: " \o o.v)
               /\ car_pc' = "returned"
               /\ car_request' = NoRequest
               /\ UNCHANGED exc
          [] OTHER ->
               /\ exc' = Exc(o.t, o.v)
               /\ car_pc' = "raised"
               /\ car_request' = NoRequest
               /\ UNCHANGED car_result
  /\ UNCHANGED << config, pc, turn, history, context, user_input, think_input, call, attempt, response_str, parse_error, envelope, outcome, log >>
  /\ UNCHANGED << memvars, regvars, searchvars, busvars, streamvars >>

\* how the request ends: the device answers with a JSON body, or with a
\* body that is not JSON (response.json() raises), or nothing comes within
\* the timeout, or no connection is made
DeviceAnswers ==
  { [how |-> "json", status |-> 200, text |-> "{\"status\": \"ok\"}"],
    [how |-> "json", status |-> 400, text |-> "{\"error\": \"bad command\"}"],
    [how |-> "ContentTypeError", status |-> 502, text |-> "Attempt to decode JSON with unexpected mimetype: text/html"],
    [how |-> "TimeoutError", status |-> 0, text |-> ""],
    [how |-> "ClientConnectorError", status |-> 0, text |-> "Cannot connect to host"] }

\* the handlers' try blocks, lines 117-148 (and 172-202, 230-251, 262-287,
\* 292-311): the answer is reported, a failure is turned into an error result
CarAnswered(answer) ==
  /\ car_pc = "awaiting"
  /\ car_result' =
       CASE answer.how = "json" ->
              "{\"success\": " \o (IF answer.status = 200 THEN "true" ELSE "false") \o ", "
              \o car_request.echo \o answer.text \o ", \"status_code\": " \o NatToStr(answer.status) \o "}"
         [] answer.how = "TimeoutError" ->
              ErrorResult(IF car_request.method = "GET" THEN "Timeout connecting to ESP32"
                          ELSE "Timeout connecting to ESP32 at " \o PyToStr(DictGet(tool_input, "esp32_ip", PyStr("unknown"))))
         [] OTHER -> ErrorResult("Communication error: " \o answer.text)
  /\ car_pc' = "returned"
  /\ UNCHANGED << config, pc, turn, history, context, user_input, think_input, call, attempt, response_str, parse_error, envelope, tool_input, exc, outcome, log >>
  /\ UNCHANGED << memvars, regvars, searchvars, busvars, streamvars, car_request >>

\* agent_kernel.run, line 176: the await of tool.run is over
CarReturned ==
  /\ car_pc = "returned"
  /\ car_pc' = "idle"
  /\ car_request' = NoRequest
  /\ UNCHANGED << config, pc, turn, history, context, user_input, think_input, call, attempt, response_str, parse_error, envelope, tool_input, exc, outcome, log >>
  /\ UNCHANGED << memvars, regvars, searchvars, busvars, streamvars, car_result >>

\* the inputs of run: every direction and speed of a move, and the other
\* actions with and without their arguments
CarIp == PyStr("192.168.100.66")
CarDirections == { PyStr("forward"), PyStr("backward"), PyStr("left"), PyStr("right"), PyStr("Forward"), PyStr("up"), PyStr(""), PyNone, PyInt(1) }
CarSpeeds == { PyInt(0 - 5), PyInt(0), PyInt(128), PyInt(255), PyInt(256), PyStr("200"), PyStr("fast"), PyFloat("99.9"), PyFloat("nan"), PyFloat("inf"), PyNone, PyBool(TRUE) }
CarInputs ==
  { [esp32_ip |-> CarIp, action |-> PyStr("move"), direction |-> d, speed |-> s] : d \in CarDirections, s \in CarSpeeds }
  \cup { [esp32_ip |-> CarIp, action |-> PyStr("move"), direction |-> d] : d \in CarDirections }
  \cup { [action |-> PyStr("move"), direction |-> PyStr("forward"), speed |-> PyInt(128)],
         [esp32_ip |-> CarIp, action |-> PyStr("MOVE"), direction |-> PyStr("LEFT"), speed |-> PyInt(300)],
         [esp32_ip |-> PyStr(""), action |-> PyStr("move"), direction |-> PyStr("forward")],
         [esp32_ip |-> PyNone, action |-> PyStr("status")],
         [esp32_ip |-> CarIp], [esp32_ip |-> CarIp, action |-> PyStr("dance")],
         [esp32_ip |-> CarIp, action |-> PyInt(1)], [esp32_ip |-> CarIp, action |-> PyNone],
         [esp32_ip |-> CarIp, action |-> PyStr("move")],
         [esp32_ip |-> CarIp, action |-> PyStr("status")], [esp32_ip |-> CarIp, action |-> PyStr("handbrake")] }
  \cup { [esp32_ip |-> CarIp, action |-> PyStr("stop"), stop_type |-> t] : t \in { PyStr("all"), PyStr("Motion"), PyStr("steering"), PyStr("now"), PyNone } }
  \cup { [esp32_ip |-> CarIp, action |-> PyStr("gear"), gear |-> g] : g \in { PyInt(3), PyInt(7), PyBool(TRUE), PyFloat("2.0"), PyStr("2") } }
  \cup { [esp32_ip |-> CarIp, action |-> PyStr("stop")], [esp32_ip |-> CarIp, action |-> PyStr("gear")] }

InitCar ==
  /\ InitRegistry
  /\ ~event_bus

NextCar ==
  \/ \E input \in CarInputs : CarRun(input)
  \/ \E answer \in DeviceAnswers : CarAnswered(answer)
  \/ CarReturned

SpecCar == InitCar /\ [][NextCar]_vars

(***************************************************************************)
(* Vocabulary of the properties.                                           *)
(***************************************************************************)
\* The calls of one kind among the calls of a turn.
OpsOf(l, kind) == SelectSeq(l, LAMBDA o : o.op = kind)
\* The calls a step adds to the turn.
Added(before, after) == SubSeq(after, Len(before) + 1, Len(after))
\* The backend attempts of one inference call.
Attempts(l, c) == SelectSeq(l, LAMBDA o : o.op = "llm" /\ o.call = c)
FailedAttempts(l, c) == SelectSeq(Attempts(l, c), LAMBDA o : ~o.ok)
OkAttempts(l, c) == SelectSeq(Attempts(l, c), LAMBDA o : o.ok)

MetadataType(m) == IF "type" \in DOMAIN m THEN m.type ELSE ""

\* An envelope with tool_name "chat" whose tool_input carries a response string.
IsChatEnvelope(env) ==
  /\ DOMAIN env = {"thoughts", "tool_name", "tool_input"}
  /\ IsStr(env.tool_name, "chat")
  /\ env.tool_input.t = "dict"
  /\ "response" \in DOMAIN env.tool_input.v
  /\ env.tool_input.v.response.t = "str"

\* think of LLMReasoner is running for the turn's prompt.
ThinkRunning == config.reasoner = "LLMReasoner" /\ pc \in {"think", "llm_call"}

\* The text is JSON that satisfies the envelope schema.
SchemaValid(text) ==
  /\ json_loads(Strip(text)).t = "dict"
  /\ SchemaError(json_loads(Strip(text))) = ""

\* The backend answered the initial prompt with a schema-valid envelope that
\* names a registered tool.
BackendSucceeded(l) ==
  /\ Len(OkAttempts(l, "initial")) = 1
  /\ LET text == OkAttempts(l, "initial")[1].text
     IN /\ SchemaValid(text)
        /\ json_loads(Strip(text)).v.tool_name.t = "str"
        /\ json_loads(Strip(text)).v.tool_name.v \in config.tools

StartsWith(s, p) == Len(s) >= Len(p) /\ SubSeq(s, 1, Len(p)) = p

\* No subscriber of any event raises.
NoSubscriberRaises == config.bad_subscribers = {}

\* think of LLMReasoner returned to the kernel and no subscriber raised.
ThinkReturned ==
  config.reasoner = "LLMReasoner" /\ pc = "dispatch" /\ NoSubscriberRaises

\* Every backend call of the turn returned text, and none of it parses.
AllCallsUnparsable(l) ==
  /\ Len(Attempts(l, "initial")) > 0
  /\ \A i \in 1..Len(l) :
       l[i].op = "llm" => l[i].ok /\ json_loads(Strip(l[i].text)).t = "JSONDecodeError"

(***************************************************************************)
(* C1.  For every backend behaviour (an attempt that fails, the retry      *)
(* ceiling exhausted, unparsable text, schema-invalid JSON, an envelope    *)
(* naming an unknown tool) LLMReasoner.think returns an envelope whose     *)
(* tool_name is "chat" and whose tool_input carries a response string.     *)
(* As stated (think never raises) the property fails; it holds with the    *)
(* one exception that, with the reasoner's debug mode on, the exception of *)
(* a raising on_thought subscriber leaves think.                           *)
(***************************************************************************)
C1_ThinkNeverRaises ==
  [][ThinkRunning =>
       /\ pc' # "except"
       /\ (pc' = "dispatch" /\ ~BackendSucceeded(log') => IsChatEnvelope(envelope'))
    ]_vars

C1_ThinkFallsBackToChat ==
  [][ThinkRunning =>
       /\ pc' \in {"think", "llm_call", "dispatch", "except"}
       /\ (pc' = "dispatch" /\ ~BackendSucceeded(log') => IsChatEnvelope(envelope'))
       /\ (pc' = "except" =>
             config.reasoner_debug /\ "on_thought" \in config.bad_subscribers)
    ]_vars

C1_Witness ==
  /\ config.reasoner = "LLMReasoner"
  /\ pc = "dispatch"
  /\ Len(FailedAttempts(log, "initial")) = Retries
  /\ IsChatEnvelope(envelope)

(***************************************************************************)
(* C2.  A tool's run() is invoked in a turn only for the tool that the     *)
(* envelope's tool_name resolved to in the registry, and only with an      *)
(* input that validate_input accepted in that turn; a tool_name that is    *)
(* not a registered name never leads to a tool execution.                  *)
(***************************************************************************)
C2_ToolRunOnlyIfResolvedAndValid ==
  /\ \A i \in 1..Len(log) :
       log[i].op = "run" =>
         /\ log[i].tool \in config.tools
         /\ IsStr(tool_name, log[i].tool)
         /\ validate_input(config.tools, tool_name, log[i].input).ok
  /\ pc = "run_tool" =>
       /\ tool_name.t = "str"
       /\ tool_name.v \in config.tools
       /\ validate_input(config.tools, tool_name, tool_input).ok

C2_Witness ==
  \E i \in 1..Len(log) :
    /\ log[i].op = "run"
    /\ log[i].tool = "advanced_calculator"
    /\ log[i].tool \in config.tools

(***************************************************************************)
(* C3.  Whatever failure reaches the turn boundary, run outputs a          *)
(* diagnostic message, appends a role "system" entry of type               *)
(* "system_error" and goes back to awaiting the next input.                *)
(***************************************************************************)
C3_TurnBoundaryKeepsSessionAlive ==
  [][pc = "except" =>
       /\ pc' = "await_input"
       /\ Len(OpsOf(Added(log, log'), "output")) = 1
       /\ Len(history') > 0
       /\ history'[Len(history')].role = "system"
       /\ MetadataType(history'[Len(history')].metadata) = "system_error"
    ]_vars

C5_ChatSentinelAlwaysAccepted ==
  ThinkReturned /\ Len(OkAttempts(log, "initial")) = 1
    /\ SchemaValid(OkAttempts(log, "initial")[1].text) =>
    LET parsed == json_loads(Strip(OkAttempts(log, "initial")[1].text)).v
    IN (envelope = parsed)
         <=> (IsStr(parsed.tool_name, "chat")
                \/ (parsed.tool_name.t = "str" /\ parsed.tool_name.v \in config.tools))

Unresolved(answer) ==
  \/ answer.kind = "raise"
  \/ /\ answer.kind = "env"
     /\ \/ ~IsStr(answer.env.tool_name, "chat")
        \/ "response" \notin DOMAIN answer.env.tool_input.v

UnresolvedFields ==
  { log[i].field : i \in { j \in 1..Len(log) :
                             /\ log[j].op = "think"
                             /\ Unresolved(log[j].answer)
                             /\ log[j].field \notin DOMAIN envelope_input } }

C7_UnresolvedFieldLeftAbsent ==
  pc = "run_tool" => \A x \in UnresolvedFields : x \notin DOMAIN tool_input

(***************************************************************************)
(* Vocabulary of the kernel's branches.                                    *)
(***************************************************************************)
\* The envelope names a tool the registry does not hold.
NamesUnregisteredTool ==
  /\ pc = "dispatch"
  /\ ~IsChatReply
  /\ ~(tool_name.t = "str" /\ tool_name.v \in config.tools)

\* The envelope's tool_input carries a fallback response.
HasFallbackResponse == Truthy(DictGet(envelope_input, "response", PyNone))

\* The step ran the branch to its end: no call of it raised.
BranchCompleted == pc' = "await_input"

\* The saves of the sequence of calls, as (role, content, metadata type).
SavesOf(l) ==
  LET saves == OpsOf(l, "save")
  IN [i \in 1..Len(saves) |->
        << saves[i].role, saves[i].content, MetadataType(saves[i].metadata) >>]

OutputsOf(l) ==
  LET outputs == OpsOf(l, "output")
  IN [i \in 1..Len(outputs) |-> outputs[i].message]

EventsOf(l) ==
  LET emits == OpsOf(l, "emit")
  IN { emits[i].name : i \in 1..Len(emits) }

NoToolResultSaved(l) ==
  \A i \in 1..Len(l) :
    l[i].op = "save" => MetadataType(l[i].metadata) # "tool_result"

\* _context_memory holds the fact under the category.
HasFact(ctx, category, key) ==
  \E i \in 1..Len(ctx) :
    /\ ctx[i].category = category
    /\ \E j \in 1..Len(ctx[i].items) : ctx[i].items[j].key = key

(***************************************************************************)
(* C8.  For an envelope {tool_name: "chat", tool_input: {response: R}}, R  *)
(* a string, a turn that runs the chat branch to its end outputs exactly R *)
(* (the only output of the turn), appends exactly one memory entry, with   *)
(* role "agent" and content R, executes no tool and goes back to awaiting  *)
(* the next input.                                                         *)
(***************************************************************************)
C8_ChatReplyOutputsAndPersistsR ==
  [][pc = "dispatch" /\ IsChatReply /\ envelope_input["response"].t = "str"
       /\ BranchCompleted =>
       LET R == envelope_input["response"].v IN
       /\ OutputsOf(log') = << PyStr(R) >>
       /\ SavesOf(Added(log, log')) = << << "agent", R, "chat_response" >> >>
       /\ history'[Len(history')].role = "agent"
       /\ history'[Len(history')].content = R
       /\ Len(OpsOf(log', "run")) = 0
       /\ outcome' = "chat"
    ]_vars

C8_Witness ==
  /\ pc = "await_input"
  /\ outcome = "chat"
  /\ IsChatReply
  /\ OutputsOf(log) = << envelope_input["response"] >>
  /\ history[Len(history)].role = "agent"

(***************************************************************************)
(* C9.  For an envelope naming an unregistered tool whose tool_input has   *)
(* no fallback response, the turn executes no tool and persists no entry   *)
(* of type "tool_result"; run to its end, the branch outputs the not-found *)
(* error, persists it as an agent entry of type "error", and the loop goes *)
(* back to awaiting the next input.                                        *)
(***************************************************************************)
C9_NotFoundReportedNothingRun ==
  [][NamesUnregisteredTool /\ ~HasFallbackResponse =>
       LET error_msg == "[ERROR] Tool '" \o PyToStr(tool_name)
                        \o "' not found or undefined." IN
       /\ Len(OpsOf(log', "run")) = 0
       /\ NoToolResultSaved(log')
       /\ pc' \in {"await_input", "except"}
       /\ BranchCompleted =>
            /\ OutputsOf(log') = << PyStr(error_msg) >>
            /\ SavesOf(Added(log, log')) = << << "agent", error_msg, "error" >> >>
            /\ history'[Len(history')].content = error_msg
            /\ outcome' = "not_found"
    ]_vars

C9_Witness ==
  /\ pc = "await_input"
  /\ outcome = "not_found"
  /\ IsStr(tool_name, "ghost")
  /\ Len(OpsOf(log, "output")) = 1
  /\ history[Len(history)].role = "agent"

(***************************************************************************)
(* C10.  For an envelope naming an unregistered tool whose tool_input      *)
(* carries a fallback response, the turn executes no tool; run to its end, *)
(* the branch outputs the response prefixed by the fallback notice,        *)
(* persists it as an agent entry with reason "tool_not_found", persists    *)
(* the context fact "failed_tool_<name>" and continues.  As stated (it     *)
(* emits a tool-used event) the property fails: on_tool_used is emitted    *)
(* only when the kernel's debug mode is off; with debug mode on the branch *)
(* emits on_tool_output instead.                                           *)
(***************************************************************************)
FallbackChatPersists ==
  LET name == PyToStr(tool_name)
      notice == "[Fallback Chat] Tool '" \o name
                \o "' not found. Chatting instead:\n"
                \o PyToStr(envelope_input["response"])
      last == history'[Len(history')] IN
  /\ OutputsOf(log') = << PyStr(notice) >>
  /\ SavesOf(Added(log, log')) = << << "agent", notice, "fallback" >> >>
  /\ last.role = "agent"
  /\ last.content = notice
  /\ last.metadata.reason = "tool_not_found"
  /\ last.metadata.requested_tool = tool_name
  /\ HasFact(context', "tool_usage", "failed_tool_" \o name)
  /\ outcome' = "fallback"

C10_FallbackEmitsToolUsed ==
  [][NamesUnregisteredTool /\ HasFallbackResponse =>
       /\ Len(OpsOf(log', "run")) = 0
       /\ pc' \in {"await_input", "except"}
       /\ BranchCompleted =>
            /\ FallbackChatPersists
            /\ "on_tool_used" \in EventsOf(Added(log, log'))
    ]_vars

C10_FallbackEmitsPerDebugMode ==
  [][NamesUnregisteredTool /\ HasFallbackResponse =>
       /\ Len(OpsOf(log', "run")) = 0
       /\ pc' \in {"await_input", "except"}
       /\ BranchCompleted =>
            /\ FallbackChatPersists
            /\ config.debug_mode =>
                 /\ "on_tool_output" \in EventsOf(Added(log, log'))
                 /\ "on_tool_used" \notin EventsOf(Added(log, log'))
            /\ ~config.debug_mode =>
                 /\ "on_tool_used" \in EventsOf(Added(log, log'))
                 /\ "on_tool_output" \notin EventsOf(Added(log, log'))
    ]_vars

C10_Witness ==
  /\ pc = "await_input"
  /\ outcome = "fallback"
  /\ config.debug_mode
  /\ "on_tool_output" \in EventsOf(log)
  /\ HasFact(context, "tool_usage", "failed_tool_ghost")

(***************************************************************************)
(* C11.  When validate_input rejects the filled input, the turn runs no    *)
(* tool, persists no tool_result entry and no successful_tool_<name> fact  *)
(* and emits no on_output; run to its end, the branch outputs the          *)
(* validation error, persists it as an agent entry with error_type         *)
(* "validation_failed", and the loop is back at awaiting the next input.   *)
(***************************************************************************)
\* The step called validate_input and it rejected the input.
ValidationRejected ==
  \E i \in 1..Len(Added(log, log')) :
    Added(log, log')[i].op = "validate" /\ ~Added(log, log')[i].ok

RejectedMessage ==
  LET calls == OpsOf(Added(log, log'), "validate")
  IN "[ERROR] Invalid tool input: " \o calls[Len(calls)].msg

NoSuccessFact(l) ==
  \A i \in 1..Len(l) :
    l[i].op = "save_context" => ~StartsWith(l[i].key, "successful_tool_")

C11_ValidationErrorReported ==
  [][ValidationRejected =>
       /\ Len(OpsOf(log', "run")) = 0
       /\ NoToolResultSaved(log')
       /\ NoSuccessFact(log')
       /\ "on_output" \notin EventsOf(log')
       /\ pc' \in {"await_input", "except"}
       /\ BranchCompleted =>
            /\ OutputsOf(log') = << PyStr(RejectedMessage) >>
            /\ SavesOf(Added(log, log')) = << << "agent", RejectedMessage, "error" >> >>
            /\ history'[Len(history')].role = "agent"
            /\ history'[Len(history')].content = RejectedMessage
            /\ history'[Len(history')].metadata.error_type = "validation_failed"
            /\ history'[Len(history')].metadata.tool = tool_name
            /\ context' = context
            /\ outcome' = "invalid"
            /\ exc' = NoExc
    ]_vars

C11_Witness ==
  /\ pc = "await_input"
  /\ outcome = "invalid"
  /\ \E i \in 1..Len(log) : log[i].op = "validate" /\ ~log[i].ok
  /\ Len(OpsOf(log, "output")) = 1
  /\ history[Len(history)].metadata.error_type = "validation_failed"

(***************************************************************************)
(* C12.  On a successful tool turn the steps happen in this order: execute *)
(* the tool, persist exactly one agent entry with metadata {type           *)
(* tool_result, tool_name, tool_input, success true}, persist the context  *)
(* fact "successful_tool_<name>", output the result, emit on_output; and   *)
(* in every turn on_output comes only after the result it carries was      *)
(* persisted and output.                                                   *)
(***************************************************************************)
\* The execution, persistence, output and on_output calls among the calls.
ResultSteps(l) ==
  SelectSeq(l, LAMBDA o :
    \/ o.op \in {"run", "save", "save_context", "output"}
    \/ (o.op = "emit" /\ o.name = "on_output"))

OnOutputAfterPersistAndOutput(l) ==
  \A i \in 1..Len(l) :
    l[i].op = "emit" /\ l[i].name = "on_output" =>
      \E j \in 1..(i - 1) : \E k \in (j + 1)..(i - 1) :
        /\ l[j].op = "save"
        /\ MetadataType(l[j].metadata) = "tool_result"
        /\ l[j].content = l[i].data.output
        /\ l[k].op = "output"
        /\ l[k].message = PyStr(l[i].data.output)

C12_ToolTurnOrder ==
  [][/\ OnOutputAfterPersistAndOutput(log')
     /\ pc = "run_tool" /\ BranchCompleted =>
          LET steps == ResultSteps(Added(log, log'))
              name == PyToStr(tool_name) IN
          /\ Len(steps) = 5
          /\ steps[1].op = "run"
          /\ steps[1].tool = name
          /\ steps[1].input = tool_input
          /\ steps[2].op = "save"
          /\ steps[2].role = "agent"
          /\ steps[2].content = steps[1].output
          /\ steps[2].metadata = [type |-> "tool_result", tool_name |-> tool_name,
                                  tool_input |-> tool_input, success |-> TRUE]
          /\ steps[3].op = "save_context"
          /\ steps[3].key = "successful_tool_" \o name
          /\ steps[4].op = "output"
          /\ steps[4].message = PyStr(steps[1].output)
          /\ steps[5].op = "emit"
          /\ steps[5].data.output = steps[1].output
          /\ Len(SelectSeq(OpsOf(log', "save"), LAMBDA o : o.role = "agent")) = 1
          /\ history'[Len(history')].content = steps[1].output
          /\ HasFact(context', "tool_usage", "successful_tool_" \o name)
          /\ outcome' = "tool"
    ]_vars

C12_Witness ==
  /\ pc = "await_input"
  /\ outcome = "tool"
  /\ Len(ResultSteps(log)) >= 5
  /\ ResultSteps(log)[Len(ResultSteps(log))].op = "emit"
  /\ MetadataType(history[Len(history)].metadata) = "tool_result"

\* The points at which run is done with a turn.
TerminalOutcomes == {"chat", "fallback", "not_found", "invalid", "tool", "error"}

\* The state is inside a turn: its input is acquired, its end not reached.
InFlight == pc \in {"think", "llm_call", "dispatch", "run_tool", "except"}

\* C13: at most one turn is in flight. run acquires the next input only
\* when the current turn has reached a terminal point (chat reply, fallback,
\* not-found report, validation error, tool output, or the turn-boundary
\* error report); while a turn is in flight no step belongs to another
\* turn: the turn number and its input stay, and the calls of the turn are
\* only extended.
C13_OneTurnInFlight ==
  [][ /\ turn' # turn =>
           /\ pc = "await_input"
           /\ turn' = turn + 1
           /\ turn > 0 => outcome \in TerminalOutcomes
      /\ InFlight =>
           /\ turn' = turn
           /\ user_input' = user_input
           /\ outcome = "none"
           /\ Len(log') >= Len(log)
           /\ SubSeq(log', 1, Len(log)) = log
    ]_vars

C13_Witness ==
  /\ turn = MaxTurns + 1
  /\ InFlight
  /\ Len(history) >= 2

\* The step is a save on the store.
SaveStep ==
  /\ Len(saved') = Len(saved) + 1
  /\ SubSeq(saved', 1, Len(saved)) = saved
  /\ saved'[Len(saved')].timestamp = isoformat(clock')

\* C14: after every save the history holds at most `limit` entries, and they
\* are exactly the most recently taken-in ones, in insertion order; for
\* every limit the store is constructed with and however many entries it
\* loaded from its file.
C14_HistoryHoldsLastLimitSaved ==
  [][ SaveStep =>
        /\ Len(history') <= limit
        /\ history' = LastN(saved', limit)
    ]_vars

\* The attribute is missing: the object does not have it, or it is empty.
Missing(attribute) == attribute = Absent \/ ~Truthy(attribute)

\* The step is a call of register_tool.
RegisterStep == Len(log') = 1 /\ log'[1].op = "register_tool"

\* The call of the step raised.
Failed == exc' # NoExc

\* C15: register_tool fails when a tool of the same name is registered and
\* when the name, the description or the example of the tool is missing;
\* after a failed registration the registry is as it was, the name still
\* mapping to the tool registered first.
C15_RegistrationFailsAndKeepsRegistry ==
  [][ RegisterStep =>
        LET tool == log'[1].arg IN
        /\ (~Missing(tool.name) /\ tool.name.v \in DOMAIN _tools) => Failed
        /\ (Missing(tool.name) \/ Missing(tool.description) \/ Missing(tool.example_usage))
             => Failed
        /\ Failed => _tools' = _tools
    ]_vars

\* The call is validate_input of a registered tool's own parsed example.
OwnExampleValidated(l) ==
  /\ Len(l) = 1
  /\ l[1].op = "validate"
  /\ l[1].tool \in DOMAIN _tools
  /\ ParseExample(_tools[l[1].tool].example_usage).ok
  /\ l[1].input = ParseExample(_tools[l[1].tool].example_usage).value

\* C16: schema self-consistency.  For every registered tool, validating
\* the parsed example of the tool against the schema inferred from that
\* example succeeds, whatever the kinds of its field values: boolean,
\* integer, number, mapping, sequence, string or null.
C16_OwnExampleValidates ==
  OwnExampleValidated(log) => log[1].ok

\* The write of the step went through: the file holds the document of this instant.
Written == persist_file'.state = "json" /\ persist_file'.last_updated = isoformat(clock')

\* The entries agree in role, content, metadata and timestamp, one by one.
SameEntries(a, b) ==
  /\ Len(a) = Len(b)
  /\ \A i \in 1..Len(a) :
       /\ a[i].role = b[i].role
       /\ a[i].content = b[i].content
       /\ a[i].metadata = b[i].metadata
       /\ a[i].timestamp = b[i].timestamp

\* C17: memory round trip.  After a save whose write went through, a new
\* instance constructed on the file loads the entries of the history with
\* identical role, content, metadata and timestamp, in the same order.
C17_ReloadReconstructsEntries ==
  [][ SaveStep /\ Written =>
        SameEntries(_load_persistent_memory(persist_file').history, history')
    ]_vars

\* a new instance holds an entry with metadata that an earlier instance saved
C17_Witness ==
  \E i \in 1..Len(history) :
    /\ history[i].session_id = strftime(0)
    /\ session_id # strftime(0)
    /\ history[i].timestamp = isoformat(1)
    /\ DOMAIN history[i].metadata # {}

\* The step is a save_context on the store.
FactStep ==
  /\ clock' = clock + 1
  /\ session_id' = session_id
  /\ saved' = saved

\* The call printed the warning of a failed write, and nothing else.
OnlyWarned(l) ==
  LET printed == OpsOf(l, "print") IN
  /\ Len(printed) = 1
  /\ StartsWith(printed[1].text, "Warning: Could not persist memory: ")

\* recall() and get_conversation_context() return the entry.
EntryRecalled(e, hist, ctx) ==
  LET recalled == recall(hist, ctx, "", TRUE, 0) IN
  /\ \E i \in 1..Len(recalled) : recalled[i] = FormattedEntry(e)
  /\ Contains(get_conversation_context(hist, ctx, 10), e.role \o ": " \o e.content)

\* recall() and get_conversation_context() return every fact of the store.
FactsRecalled(hist, ctx) ==
  LET recalled == recall(hist, ctx, "", TRUE, 0)
      conversation == get_conversation_context(hist, ctx, 10)
  IN \A c \in 1..Len(ctx) : \A k \in 1..Len(ctx[c].items) :
       LET line == ctx[c].items[k].key \o ": " \o PyToStr(ctx[c].items[k].value) IN
       /\ \E i \in 1..Len(recalled) : recalled[i] = "  " \o line
       /\ Contains(conversation, "  - " \o line)

\* C18: when the write of the file fails, save and save_context do not
\* raise; the failure is only printed as a warning, the new entry or fact is
\* in the in-memory store, and recall and get_conversation_context return
\* it, as they return every fact the store holds afterwards.
C18_WriteFailureKeepsMemory ==
  [][ /\ (SaveStep \/ FactStep) /\ ~Written =>
           /\ exc' = NoExc
           /\ OnlyWarned(log')
           /\ SaveStep => /\ history'[Len(history')] = saved'[Len(saved')]
                          /\ EntryRecalled(saved'[Len(saved')], history', context')
           /\ FactStep => /\ Len(context') > 0
                          /\ FactsRecalled(history', context')
      /\ FactsRecalled(history', context')
    ]_vars

\* a save whose write failed: the entry of this instant is in the history,
\* the file does not hold it
C18_Witness ==
  /\ OnlyWarned(log)
  /\ exc = NoExc
  /\ Len(history) > 0
  /\ history[Len(history)].timestamp = isoformat(clock)
  /\ \/ persist_file.state # "json"
     \/ persist_file.last_updated # isoformat(clock)

\* The on_thought events among the calls, in order.
ThoughtsOf(l) == SelectSeq(l, LAMBDA o : o.op = "emit" /\ o.name = "on_thought")

\* The step takes the envelope think returned through run's lines 81-88
\* and on into a branch that does not raise.
EnvelopeTaken == pc = "dispatch" /\ pc' \in {"await_input", "run_tool"}

\* C19: on_thought is emitted exactly once per turn, for the envelope think
\* returned, whatever the debug flags of the kernel and of the reasoner
\* and whichever way think came to its envelope.
C19_OneThoughtPerTurn ==
  [][ EnvelopeTaken =>
        /\ Len(ThoughtsOf(log')) = 1
        /\ ThoughtsOf(log')[1].data = envelope
    ]_vars

\* The step is the end-of-session signal reaching run: interface.input
\* raised KeyboardInterrupt on an exit command or on the closed channel.
SessionEnded == pc = "await_input" /\ pc' = "stopped"

\* run is over.
RunLeft == pc \in {"stopped", "crashed"}

\* C20: on the end-of-session signal run unwinds and nothing else happens:
\* no entry or fact is saved, no event is emitted, the reasoner is not
\* called, and no input is requested afterwards.  Without the signal run
\* does not end: it is left by that signal only, so the loop goes on
\* requesting inputs.
C20_OnlyTheSignalEndsRun ==
  [][ /\ SessionEnded =>
           /\ history' = history /\ context' = context
           /\ log' = log
           /\ turn' = turn
      /\ pc = "stopped" => pc' = "stopped" /\ turn' = turn /\ log' = log
      /\ RunLeft' /\ ~RunLeft => SessionEnded
    ]_vars

\* The memory writes among the calls, in order.
WritesOf(l) == SelectSeq(l, LAMBDA o : o.op \in {"save", "save_context"})

\* The calls the step makes: those of a new turn, or those added to the turn.
StepCalls == IF turn' # turn THEN log' ELSE Added(log, log')

\* The step runs inside reasoner.think, called for the turn's prompt.
ReasonerStep == pc \in {"think", "llm_call"}

\* Between a completion call of the field completer and the validation that
\* follows it, the turn has no memory write.
NoWriteWhileFilling(l) ==
  \A i, j, k \in 1..Len(l) :
    i < j /\ j < k /\ l[i].op = "think" /\ l[k].op = "validate" =>
      l[j].op \notin {"save", "save_context"}

\* C21: the memory store has one writer.  Every save and save_context of a
\* session is issued by run itself or by its learning extraction, never by
\* the reasoner while think is running, by the field completer or by a
\* tool; and the writes do not overlap: the store after a step is the store
\* before it with the step's writes applied one after the other.
C21_LoopIsTheOnlyWriter ==
  [][ /\ ReasonerStep =>
           /\ WritesOf(StepCalls) = << >>
           /\ history' = history /\ context' = context
      /\ NoWriteWhileFilling(log')
      /\ pc \notin {"stopped", "crashed"} =>
           LET st == Exec(WritesOf(StepCalls), 1, Start(FALSE))
           IN history' = st.history /\ context' = st.context
    ]_vars

\* The value of the fact stored under the key in the category, Absent if none.
FactValue(ctx, category, key) ==
  IF \E c \in 1..Len(ctx) : ctx[c].category = category /\ \E k \in 1..Len(ctx[c].items) : ctx[c].items[k].key = key
  THEN LET c == CHOOSE c \in 1..Len(ctx) : ctx[c].category = category
           k == CHOOSE k \in 1..Len(ctx[c].items) :
                  /\ ctx[c].items[k].key = key
                  /\ \A j \in 1..(k - 1) : ctx[c].items[j].key # key
       IN ctx[c].items[k].value
  ELSE Absent

\* The (category, key) pairs the store holds a fact under.
FactKeys(ctx) ==
  UNION { { << ctx[c].category, ctx[c].items[k].key >> : k \in 1..Len(ctx[c].items) } :
          c \in 1..Len(ctx) }

\* C22: save_context is keyed by (category, key) and the latest write wins.
\* After save_context(k, v, c) the fact at (c, k) has the value v, whatever
\* was stored there before, and the fact under every other key and in every
\* other category is the one it was.
C22_LatestFactWins ==
  [][ FactStep =>
        LET f == log'[1].arg IN
        /\ log'[1].op = "save_context"
        /\ FactValue(context', f.category, f.key) = f.value
        /\ \A ck \in (FactKeys(context) \cup FactKeys(context')) \ { << f.category, f.key >> } :
             FactValue(context', ck[1], ck[2]) = FactValue(context, ck[1], ck[2])
    ]_vars

\* a fact was saved over an earlier value of its key, next to another category
C22_Witness ==
  /\ Len(log) > 0 /\ log[1].op = "save_context"
  /\ log[1].arg.value = PyStr("I am Bo")
  /\ FactValue(context, "learned_facts", "learned_user_fact") = PyStr("I am Bo")
  /\ Len(context) = 1 /\ Len(context[1].items) = 1
  /\ clock = 2 /\ session_id = strftime(0) /\ saved = << >>

\* run of the search tool is not in progress: it was not called, or it has
\* returned its result string.
RunNotInProgress == search_pc \in {"idle", "returned"}

\* C23: the fan-out of the web-search tool does not leak into the loop.
\* Every engine request and every page scrape that run started has ended
\* (answered, failed or timed out) when run returns its result string, so none
\* of them is pending when the turn goes on and when the next turn calls run.
C23_NoRequestOutlivesRun ==
  RunNotInProgress => \A i \in 1..Len(tasks) : tasks[i].status = "done"

\* run has returned a report after a scrape that timed out next to one that
\* answered
C23_Witness ==
  /\ search_pc = "returned"
  /\ Len(collected_data) > 0
  /\ \E i, j \in 1..Len(tasks) :
       /\ tasks[i].how = "timed_out" /\ tasks[j].how = "succeeded"
       /\ tasks[i].name = Url(1)

\* The required fields of the tool, in the order of its example, that the
\* input has no key for or holds a falsy value for.
FieldsToFill(tool, input) ==
  SelectSeq(ExampleKeys(tool), LAMBDA f : f \notin DOMAIN input \/ ~Truthy(input[f]))

\* The step takes a registered tool's input through fill_missing_fields and
\* on to validate_input.
FillStep == pc = "dispatch" /\ OpsOf(Added(log, log'), "validate") # << >>

\* C24: fill_missing_fields makes exactly one completion call per required
\* field that is missing or falsy, in order, and none when no field is; every
\* completion call passes tools=None; and a completion call leads to no tool
\* run, no backend dispatch and no further completion.
C24_OneCompletionPerMissingField ==
  [][ FillStep =>
        LET calls == Added(log, log')
            completions == OpsOf(calls, "think")
            fields == FieldsToFill(tool_name.v, envelope_input)
        IN /\ Len(completions) = Len(fields)
           /\ \A i \in 1..Len(fields) :
                completions[i].field = fields[i] /\ completions[i].tools = "None"
           /\ OpsOf(calls, "run") = << >>
           /\ OpsOf(calls, "llm") = << >>
    ]_vars

\* both fields of the search tool were completed, one of them present but
\* falsy in the envelope
C24_Witness ==
  /\ pc \in {"run_tool", "await_input"}
  /\ Len(OpsOf(log, "think")) = 2
  /\ OpsOf(log, "validate") # << >>
  /\ "max_depth" \in DOMAIN envelope_input

\* The step acquires an input from the interface.
InputStep == turn' = turn + 1

\* The on_input events among the calls, in order.
InputEventsOf(l) == SelectSeq(l, LAMBDA o : o.op = "emit" /\ o.name = "on_input")

\* The newest entry of the history is the user's entry for the input.
UserEntryLast(hist, input) ==
  /\ Len(hist) > 0
  /\ hist[Len(hist)].role = "user"
  /\ hist[Len(hist)].content = input

\* C25: every input run acquires is saved as an entry with role "user"
\* and the input as content before the reasoner is called for the turn, and
\* on_input is emitted for it exactly once: in the step that acquires it and
\* in no later step of the turn.
C25_InputPersistedBeforeThink ==
  [][ /\ InputStep =>
           /\ UserEntryLast(history', user_input')
           /\ Len(InputEventsOf(log')) = 1
           /\ InputEventsOf(log')[1].data = [input |-> user_input']
           /\ pc' = "think"
      /\ ~InputStep => InputEventsOf(Added(log, log')) = << >>
      /\ pc = "think" => UserEntryLast(history, user_input)
    ]_vars

\* The last call on the registry is a validate_input.
InputValidated(l) == Len(l) = 1 /\ l[1].op = "validate"

\* The input has every key of the tool's parsed example, each with a value
\* of the JSON type inferred from the example's value.
MatchesExample(example, input) ==
  \A i \in 1..Len(example.keys) :
    /\ example.keys[i] \in DOMAIN input
    /\ JsonTypeOk(input[example.keys[i]], infer_type(example.value[example.keys[i]]))

\* C26: validate_input is total.  It does not raise; it returns False with
\* a non-empty message for a name that is not registered and for an input
\* that lacks a key of the tool's example or holds a value that is not of
\* the type inferred from the example, and (True, "") for every other
\* input: the required fields are exactly the keys of the example.
C26_ValidateInputTotal ==
  InputValidated(log) =>
    LET name == log[1].tool IN
    /\ exc = NoExc
    /\ log[1].ok => log[1].msg = ""
    /\ ~log[1].ok => log[1].msg # ""
    /\ log[1].ok <=>
         /\ name \in DOMAIN _tools
         /\ MatchesExample(ParseExample(_tools[name].example_usage), log[1].input)

\* C27: _parse_field_value never raises on a text; a boolean field is true
\* exactly for true/yes/1/on in any case; an integer or number field gives the
\* number the text denotes; an array or object field gives the parsed list or
\* mapping; and whenever the text cannot be coerced the stripped text is returned.
FieldParsed(l) == Len(l) = 1 /\ l[1].op = "_parse_field_value"

RawText(o) == PyStr(Strip(o.response))

C27_ParseFieldValue ==
  FieldParsed(log) =>
    LET o == log[1]
        text == Strip(o.response)
    IN /\ exc = NoExc
       /\ o.field_type = "boolean" =>
            o.value = PyBool(Lower(text) \in {"true", "yes", "1", "on"})
       /\ o.field_type = "integer" =>
            o.value = IF IsIntLiteral(text) THEN PyInt(IntOf(text)) ELSE RawText(o)
       /\ o.field_type = "number" =>
            o.value = IF IsFloatLiteral(text) THEN PyFloat(FloatRepr(text)) ELSE RawText(o)
       /\ o.field_type \in {"array", "object"} =>
            o.value.t \in {"list", "dict"} \/ o.value = RawText(o)
       /\ o.field_type \notin {"boolean", "integer", "number", "array", "object"} =>
            o.value = RawText(o)

\* C28: when a streaming attempt returns, its text is the tokens of all
\* well-formed fragments of the body joined in the order they were sent, the
\* texts handed to the callback joined give the same text, each of them but a
\* last partial line being one line with its newline; an attempt answered with
\* a status other than 200 raises with nothing handed to the callback.
WellFormed(fragment) == TokenOf(fragment).t = "str"

RECURSIVE TokensJoined(_)
TokensJoined(frags) ==
  IF frags = << >> THEN ""
  ELSE (IF WellFormed(Head(frags)) THEN TokenOf(Head(frags)).v ELSE "")
       \o TokensJoined(Tail(frags))

RECURSIVE Joined(_)
Joined(texts) == IF texts = << >> THEN "" ELSE Head(texts) \o Joined(Tail(texts))

OneLine(text) == NewlineAt(text) = Len(text) /\ Len(text) > 0

C28_StreamedTextIsTheTokens ==
  /\ stream_pc = "returned" =>
       /\ full_text = TokensJoined(body)
       /\ token_callback =>
            /\ Joined(forwarded) = full_text
            /\ \A i \in 1..(Len(forwarded) - 1) : OneLine(forwarded[i])
            /\ forwarded # << >> =>
                 LET last == forwarded[Len(forwarded)]
                 IN OneLine(last) \/ (last # "" /\ NewlineAt(last) = 0)
  /\ stream_pc = "raised" => exc.type = "RuntimeError" /\ forwarded = << >>

\* C29: when emit(name, data) returns, every callback subscribed to the name
\* has been called with the data, once per subscription and in the order of
\* the subscriptions, and no other callback has been called; subscribe calls
\* no callback, so an event emitted before a subscription never reaches it.
EmitReturned(l) == l # << >> /\ l[1].op = "emit" /\ exc = NoExc
JustSubscribed(l) == l # << >> /\ l[1].op = "subscribe"

C29_EmitDeliversInOrder ==
  /\ EmitReturned(log) =>
       LET callbacks == _subscribers[log[1].arg.event_name]
           delivered == Tail(log)
       IN /\ Len(delivered) = Len(callbacks)
          /\ \A i \in 1..Len(delivered) :
               delivered[i] = DeliverOp(callbacks[i], log[1].arg.data)
  /\ JustSubscribed(log) => OpsOf(log, "callback") = << >>

\* an emit that returned after calling a callback subscribed twice two times,
\* the callback subscribed to the other event left out
C29_Witness ==
  /\ EmitReturned(log)
  /\ log[1].arg.event_name = "on_memory_save"
  /\ Len(log) = 3
  /\ log[2].callback = "on_context_learned"
  /\ log[3].callback = "on_context_learned"
  /\ SubscribersOf(_subscribers, "on_context_learned") = << "on_memory_save" >>

\* C30: fill_missing_fields only adds keys: the mapping it was given is left as
\* it was, and every key of that mapping is in the result with the value it
\* had, also when that value is 0, false or an empty string.
FilledInput(calls) == OpsOf(calls, "validate")[1].input

C30_FillOnlyAddsKeys ==
  [][ FillStep =>
        LET filled == FilledInput(Added(log, log'))
        IN /\ envelope' = envelope
           /\ \A k \in DOMAIN envelope_input :
                k \in DOMAIN filled /\ filled[k] = envelope_input[k]
    ]_vars

\* C31: with LLMReasoner a field completion reaches no backend: the step that
\* fills the fields makes no backend attempt, and every field it writes holds
\* the fixed apology text coerced to the field's type, the raw text for a
\* string, integer or number field and false for a boolean one.
ApologyPrefix == "I'm having trouble processing that request. Could you rephrase it? You asked: "

FromApology(value) ==
  \/ value = PyBool(FALSE)
  \/ value.t = "str" /\ StartsWith(value.v, ApologyPrefix)

C31_CompletionNeverReachesBackend ==
  [][ (FillStep /\ config.reasoner = "LLMReasoner") =>
        LET calls == Added(log, log')
            filled == FilledInput(calls)
            fields == FieldsToFill(tool_name.v, envelope_input)
        IN /\ OpsOf(calls, "llm") = << >>
           /\ \A i \in 1..Len(fields) :
                \/ FromApology(filled[fields[i]])
                \/ /\ fields[i] \in DOMAIN envelope_input
                   /\ filled[fields[i]] = envelope_input[fields[i]]
    ]_vars

\* the calculator runs on an expression that is the apology text
C31_Witness ==
  /\ config.reasoner = "LLMReasoner"
  /\ pc = "run_tool"
  /\ "expression" \in DOMAIN tool_input
  /\ FromApology(tool_input.expression)
  /\ "expression" \notin DOMAIN envelope_input

\* C32: with LLMReasoner the missing-tool branch of the kernel is never
\* entered: every envelope think hands to the dispatch is a chat envelope with
\* a response or names a tool the kernel's lookup finds.
Dispatching == pc = "dispatch" /\ config.reasoner = "LLMReasoner"

C32_MissingToolUnreachable ==
  Dispatching => IsChatReply \/ get_tool_by_name(config.tools, tool_name) # ""

\* the backend named a tool that is not registered and the dispatch got the
\* fallback chat envelope instead
C32_Witness ==
  /\ Dispatching
  /\ response_str = TxtGhost
  /\ IsChatReply

\* C33: one think call makes at most Retries backend attempts for the initial
\* prompt and at most Retries for the corrective prompt, 2 * Retries in all;
\* the corrective prompt is sent only after the initial call returned a text
\* that is no JSON or fails the envelope schema, never after the initial call
\* ran out of retries or returned a well-formed envelope naming an unknown tool.
Malformed(text) ==
  \/ json_loads(Strip(text)).t = "JSONDecodeError"
  \/ SchemaError(json_loads(Strip(text))) # ""

C33_AttemptsBoundedReaskOnlyOnParseFailure ==
  LET initial == Attempts(log, "initial")
      reask == Attempts(log, "reask")
  IN /\ Len(initial) <= Retries
     /\ Len(reask) <= Retries
     /\ Len(OpsOf(log, "llm")) <= 2 * Retries
     /\ reask # << >> =>
          /\ initial # << >>
          /\ initial[Len(initial)].ok
          /\ Malformed(initial[Len(initial)].text)

\* a think call that used all its attempts on both prompts
C33_Witness ==
  /\ Len(Attempts(log, "initial")) = Retries
  /\ Len(Attempts(log, "reask")) = Retries

\* C34: the loop is back at its head, where alone the next input is acquired,
\* only after the turn made at least one interface.output call that returned,
\* on every path: chat reply, fallback, not found, validation error, tool
\* result and turn boundary.
TurnOver == AtLoopHead /\ turn >= 1

C34_OutputBeforeNextInput == TurnOver => OpsOf(log, "output") # << >>

\* a turn that ended in the turn boundary, whose output was its only one
C34_Witness ==
  /\ TurnOver
  /\ outcome = "error"
  /\ Len(OpsOf(log, "output")) = 1

\* C35: once a subscriber has raised out of an emit inside a turn, the turn
\* makes no further step of its own: every later call of the turn is one of the
\* turn boundary (the crash report shown, saved and emitted as on_error) or a
\* handler raising the same way again, and
\* the loop goes on to the next input with the turn ended as an error.
\* an emit of the turn proper (on_error is the boundary's own) that raised
RaisingEmit(o) == o.op = "emit" /\ EmitRaises(o.name) /\ o.name # "on_error"

BoundaryCall(o) ==
  \/ o.op = "output" /\ StartsWith(PyToStr(o.message), "[ERROR] Agent crashed: ")
  \/ o.op = "save" /\ o.role = "system"
  \/ o.op = "emit" /\ o.name = "on_error"

C35_SubscriberFailureEndsTurn ==
  \A i \in 1..Len(log) :
    RaisingEmit(log[i]) =>
      /\ \A j \in (i + 1)..Len(log) : BoundaryCall(log[j]) \/ RaisingEmit(log[j])
      /\ pc \in {"except", "await_input", "stopped", "crashed"}
      /\ pc \in {"await_input", "stopped"} => outcome = "error"

\* C36: when the reasoner is about to be called for a turn, the newest entry
\* of the history is the turn's input, the prompt is the augmented one, never
\* the raw input, and the last line of its recent-conversation block is that
\* input.
AboutToThink == pc = "think"

EndsRecentBlock(prompt, input) ==
  \/ Contains(prompt, "\nuser: " \o input \o "\n\nCURRENT REQUEST:\n")
  \/ Contains(prompt, "\nuser: " \o input \o "\n\nRELEVANT CONTEXT:\n")

C36_PromptAlwaysAugmented ==
  AboutToThink =>
    /\ UserEntryLast(history, user_input)
    /\ think_input # user_input
    /\ StartsWith(think_input, "CONVERSATION CONTEXT:\nRECENT CONVERSATION:\n")
    /\ EndsRecentBlock(think_input, user_input)

\* the first turn on an empty memory: the input is the only entry recalled
C36_Witness ==
  /\ AboutToThink
  /\ Len(history) = 1
  /\ context = << >>
  /\ EndsRecentBlock(think_input, user_input)


\* The file on disk holds the history of the store: the last write went through.
FileHoldsHistory ==
  /\ history # << >>
  /\ SameEntries(_load_persistent_memory(persist_file).history, history)

BatchStarted == search_pc = "loop" /\ search_pc' = "scraping"
RunStarted == search_pc = "idle" /\ search_pc' = "engines"

\* C38: within one run no URL is scraped twice.  The set of scraped URLs is
\* emptied when a run starts; every scrape a batch starts is for a URL no
\* earlier batch of the run scraped, no two scrapes of the batch are for the
\* same URL, and every started scrape is recorded in the set.
C38_NoUrlScrapedTwice ==
  [][/\ RunStarted => scraped_urls' = {}
     /\ BatchStarted =>
          /\ \A i \in 1..Len(tasks') : tasks'[i].name \notin scraped_urls
          /\ \A i, j \in 1..Len(tasks') : i # j => tasks'[i].name # tasks'[j].name
          /\ scraped_urls' = scraped_urls \cup { tasks'[i].name : i \in 1..Len(tasks') }]_vars


\* what the input of the run in progress asks for
AskedAction == IF "action" \in DOMAIN tool_input /\ tool_input.action.t = "str" THEN Lower(tool_input.action.v) ELSE "?"
AskedDirection == IF "direction" \in DOMAIN tool_input /\ tool_input.direction.t = "str" THEN Lower(tool_input.direction.v) ELSE "?"
MissingIp == "esp32_ip" \notin DOMAIN tool_input \/ ~Truthy(tool_input.esp32_ip)
UnknownAction == AskedAction \notin {"move", "stop", "gear", "handbrake", "status"}
InvalidDirection == AskedAction = "move" /\ AskedDirection \notin {"forward", "backward", "left", "right"}
MovementSent == car_pc \in {"awaiting", "returned"} /\ car_request # NoRequest /\ AskedAction = "move"

\* C39: every movement command sent carries a command of F, B, L, R and a
\* pwm in 0..255, which for an integer speed is that speed cut to the range
\* (128 when no speed is given); for an invalid direction, a missing
\* esp32_ip or an unknown action run sends nothing and returns an error
\* result, and it does not raise.
C39_MovementCommandsInRange ==
  /\ car_pc # "raised"
  /\ MovementSent =>
       /\ car_request.method = "POST"
       /\ car_request.json.command \in {"F", "B", "L", "R"}
       /\ car_request.json.pwm \in 0..255
       /\ "speed" \notin DOMAIN tool_input => car_request.json.pwm = 128
       /\ "speed" \in DOMAIN tool_input /\ tool_input.speed.t = "int" =>
            car_request.json.pwm = (IF tool_input.speed.v < 0 THEN 0
                                    ELSE IF tool_input.speed.v > 255 THEN 255
                                    ELSE tool_input.speed.v)
  /\ car_pc # "idle" /\ (MissingIp \/ UnknownAction \/ InvalidDirection) =>
       /\ car_pc = "returned"
       /\ car_request = NoRequest
       /\ StartsWith(car_result, "{\"success\": false, \"error\": \"")

\* a move asked with a speed above the range was sent with pwm 255 and the
\* device's answer was reported
C39_Witness ==
  /\ MovementSent
  /\ car_pc = "returned"
  /\ "speed" \in DOMAIN tool_input /\ tool_input.speed = PyInt(256)
  /\ car_request.json.pwm = 255
  /\ StartsWith(car_result, "{\"success\": true, \"action\": \"move\"")

====
